---- MODULE Spec2Model ----
(***************************************************************************)
(* Model of the memory-neo4j plugin of openclaw: the Neo4j store client,   *)
(* the memory_store tool and the multi-phase sleep cycle (runSleepCycle).  *)
(*                                                                         *)
(* Numbers are fixed point: importances and similarity scores are in       *)
(* hundredths (0.95 is 95, 0.01 is 1), decay scores and the retention      *)
(* threshold in ten-thousandths (0.1 is 1000).                             *)
(*                                                                         *)
(* runSleepCycle is one sequential async function.  Its position pc is the *)
(* await it is suspended at; the action of that name is the completion of  *)
(* the awaited call (the store's or the LLM's effect, or its failure)      *)
(* together with the synchronous code that runs up to the next await.  The *)
(* abort signal and the tool calls interleave between those actions.       *)
(***************************************************************************)
EXTENDS Integers, Sequences, FiniteSets, TLC

\* ------------------------------------------------------------------ bounds
MaxMem == 5
MaxThrows == 1

\* ------------------------------------------------------- program constants
ImpInvalidated == 1
ImpDefault == 70
ImpCore == 100
StoreDupThreshold == 95
DedupThreshold == 95
ClusterThreshold == 75
SemanticVectorThreshold == 80
FindSimilarOverfetch == 3
DecayThresholdDefault == 1000
BaseHalfLifeDays == 30
ImportanceMultiplier == 2
DecayLimit == 500
NoisePatternCount == 7

\* --------------------------------------------------------------- universes
MemIds == 1..MaxMem
EntIds == {"e1", "e2"}
TagIds == {"t1"}
Agents == {"a", "b"}
NoMem == [cat |-> "none"]
NoAgent == "none"
Phases == <<"dedup", "semanticDedup", "conflict", "entityDedup", "extraction",
            "decay", "cleanup", "noiseCleanup", "credentialScan", "taskLedger">>
PhaseIndexOf == [p \in {Phases[i] : i \in 1..Len(Phases)} |-> CHOOSE i \in 1..Len(Phases) : Phases[i] = p]
PhaseIndex(p) == PhaseIndexOf[p]

VARIABLES mem, ents, tags, ready, aborted, opts, pc, loc, result, started, hist, ms, cst

vars == <<mem, ents, tags, ready, aborted, opts, pc, loc, result, started, hist, ms, cst>>

\* ----------------------------------------------------------------- helpers
Exists(m) == mem[m].cat # "none"
Live == {m \in MemIds : Exists(m)}
Abs(x) == IF x < 0 THEN -x ELSE x
Min2(a, b) == IF a < b THEN a ELSE b
Max2(a, b) == IF a > b THEN a ELSE b
\* The score the vector index yields for two embeddings (cosine similarity,
\* 100 for identical vectors): embeddings are points, the score falls with
\* their distance.
Sim(x, y) == Max2(0, 100 - Abs(x - y))
\* A set of memory ids as the ascending sequence the store returns.
RECURSIVE SortedSeq(_)
SortedSeq(S) ==
  IF S = {} THEN <<>>
  ELSE LET lo == CHOOSE x \in S : \A y \in S : x <= y
       IN <<lo>> \o SortedSeq(S \ {lo})
InScope(m, agentId) == Exists(m) /\ (agentId = NoAgent \/ mem[m].agent = agentId)

\* ------------------------------------------------ store client: memories
\* storeMemory: CREATE (m:Memory {...}) with zeroed retrieval counters.
StoreMemory(M, id, input) ==
  [M EXCEPT ![id] = [cat |-> input.cat, imp |-> input.imp, emb |-> input.emb,
                     txt |-> input.txt, agent |-> input.agent, age |-> 0,
                     lra |-> -1, rc |-> 0, st |-> input.st, ents |-> {},
                     tags |-> {}]]

\* invalidateMemory: MATCH (m:Memory {id}) SET m.importance = 0.01.  No
\* category test: any existing memory is hit.
InvalidateMemoryDeletes(M, id) == [m \in MemIds |-> IF m = id THEN NoMem ELSE M[m]]
InvalidateMemory(M, id) ==
  IF M[id].cat = "none" THEN M ELSE [M EXCEPT ![id].imp = ImpInvalidated]

\* DETACH DELETE of a set of memory nodes (edges go with the node).
DetachDelete(M, ids) == [m \in MemIds |-> IF m \in ids THEN NoMem ELSE M[m]]

\* The entities' mentionCount after pruneMemories deleted the memories `ids`:
\* per MENTIONS edge, mentionCount - 1 when it is > 0, else 0 (a NULL count,
\* -1 here, fails the > 0 test and becomes 0).
DecrementMentions(M, E, ids) ==
  [e \in EntIds |->
     LET n == Cardinality({m \in ids : M[m].cat # "none" /\ e \in M[m].ents})
     IN IF E[e].node /\ n > 0
        THEN [E[e] EXCEPT !.mc = Max2(0, E[e].mc - n)]
        ELSE E[e]]

\* ---------------------------------------------- store client: findSimilar
\* db.index.vector.queryNodes(index, k, embedding): the k nearest memories
\* of all agents.  Ties are broken by the index, so every k-subset that no
\* outsider beats is a possible answer.
NearestSets(M, k, emb) ==
  LET all == {m \in MemIds : M[m].cat # "none"}
      n == Min2(k, Cardinality(all))
  IN {S \in SUBSET all :
        /\ Cardinality(S) = n
        /\ \A x \in S, y \in all \ S : Sim(M[x].emb, emb) >= Sim(M[y].emb, emb)}

\* The rows of the findSimilar query for one answer S of the index:
\* WHERE score >= threshold AND node.agentId = agentId, then slice(0, limit)
\* of the rows ordered by score.  Returns the set of ids it may return first.
FindSimilarRows(M, S, emb, threshold, agentId) ==
  {m \in S : /\ Sim(M[m].emb, emb) >= threshold
             /\ (agentId = NoAgent \/ M[m].agent = agentId)}

\* ------------------------------------- store client: findDuplicateClusters
RECURSIVE Grow(_, _, _, _)
Grow(M, C, S, thr) ==
  LET N == C \cup {y \in S : \E x \in C : x # y /\ Sim(M[x].emb, M[y].emb) >= thr}
  IN IF N = C THEN C ELSE Grow(M, N, S, thr)

\* Union-find over the per-node nearest-neighbour matches that lie in the
\* agent's scope; clusters of 2+ members, each a snapshot of ids,
\* importances and embeddings (the pairwise similarities come from these).
ClusterSets(M, thr, agentId) ==
  LET S == {m \in MemIds : M[m].cat # "none" /\ (agentId = NoAgent \/ M[m].agent = agentId)}
  IN IF Cardinality(S) < 2 THEN {}
     ELSE {C \in {Grow(M, {x}, S, thr) : x \in S} : Cardinality(C) >= 2}

MinOf(S) == CHOOSE x \in S : \A y \in S : x <= y

RECURSIVE ClusterSeq(_, _)
ClusterSeq(M, CS) ==
  IF CS = {} THEN <<>>
  ELSE LET C == CHOOSE c \in CS : \A d \in CS : MinOf(c) <= MinOf(d)
           ids == SortedSeq(C)
       IN <<[ids |-> ids,
             imps |-> [i \in 1..Len(ids) |-> M[ids[i]].imp],
             embs |-> [i \in 1..Len(ids) |-> M[ids[i]].emb]]>>
          \o ClusterSeq(M, CS \ {C})

FindDuplicateClusters(M, thr, agentId) == ClusterSeq(M, ClusterSets(M, thr, agentId))

\* cluster.similarities.get(pairKey): the score of a pair the scan found
\* (>= the scan threshold), -1 for a pair with no entry (undefined).
PairSimilarity(c, i, j) ==
  LET s == Sim(c.embs[i], c.embs[j])
  IN IF s >= ClusterThreshold THEN s ELSE -1

\* hasHighSim: some pair of the cluster scores >= dedupThreshold.
HasHighSim(c) ==
  \E i, j \in 1..Len(c.ids) : i < j /\ PairSimilarity(c, i, j) >= DedupThreshold

\* ---------------------------------------- store client: mergeMemoryCluster
\* (The member of lowest importance, for comparison.)
SurvivorIdxLowest(imps) ==
  CHOOSE i \in 1..Len(imps) : \A j \in 1..Len(imps) : imps[i] <= imps[j]
\* Index of the survivor: the first member with the highest importance.
SurvivorIdx(imps) ==
  CHOOSE i \in 1..Len(imps) :
    /\ \A j \in 1..Len(imps) : imps[j] <= imps[i]
    /\ \A j \in 1..(i - 1) : imps[j] < imps[i]

\* One write transaction: verify every member still exists (else return 0
\* and change nothing), move the losers' MENTIONS and TAGGED edges to the
\* survivor, DETACH DELETE the losers.
MergeMemoryCluster(M, ids, imps) ==
  LET sv == ids[SurvivorIdx(imps)]
      all == {ids[i] : i \in 1..Len(ids)}
      dead == all \ {sv}
  IN IF \E m \in all : M[m].cat = "none"
     THEN [mem |-> M, deletedCount |-> 0, survivorId |-> sv]
     ELSE [mem |-> DetachDelete(
                     [M EXCEPT ![sv].ents = @ \cup UNION {M[d].ents : d \in dead},
                               ![sv].tags = @ \cup UNION {M[d].tags : d \in dead}],
                     dead),
           deletedCount |-> Len(ids) - 1, survivorId |-> sv]

\* ------------------------------------------ store client: decay and prune
\* 1000 * ln(1 + retrievalCount)
LnMilli(rc) == IF rc = 0 THEN 0 ELSE IF rc = 1 THEN 693 ELSE IF rc = 2 THEN 1099 ELSE 1386

\* 100 * e^(-r/10) for r in tenths, rounded; 0 from 5.3 on.
ExpTable ==
  <<100, 90, 82, 74, 67, 61, 55, 50, 45, 41, 37, 33, 30, 27, 25, 22, 20, 18,
    17, 15, 14, 12, 11, 10, 9, 8, 7, 7, 6, 6, 5, 5, 4, 4, 3, 3, 3, 2, 2, 2, 2,
    2, 1, 1, 1, 1, 1, 1, 1, 1, 1, 1, 1>>
ExpNegCenti(r) == IF r + 1 > Len(ExpTable) THEN 0 ELSE ExpTable[r + 1]

\* CASE WHEN m.lastRetrievedAt IS NOT NULL THEN days since it ELSE days
\* since m.createdAt.
EffectiveAgeDays(r) == IF r.lra >= 0 THEN r.lra ELSE r.age

\* $curveMap[m.category] when present, else $baseHalfLife.
CategoryHalfLife(r, o) == IF o.curveCat = r.cat THEN o.curveHalfLife ELSE o.halfLife

\* effectiveAgeDays / halfLife in tenths, with
\* halfLife = categoryHalfLife * (1 + importance * mult) * (1 + ln(1 + rc) * 0.2).
AgeRatioTenths(r, o) ==
  (EffectiveAgeDays(r) * 1000000)
    \div (CategoryHalfLife(r, o) * (100 + r.imp * o.mult) * (1000 + LnMilli(r.rc) \div 5))

\* importance * exp(-effectiveAgeDays / halfLife), in ten-thousandths.
DecayScore(r, o) == r.imp * ExpNegCenti(AgeRatioTenths(r, o))

\* findDecayedMemories: WHERE m.category <> 'core' [AND m.agentId = $agentId]
\* ... WHERE decayScore < $threshold.
FindDecayedWithCore(M, o) ==
  {m \in MemIds : /\ M[m].cat # "none"
                  /\ (o.agentId = NoAgent \/ M[m].agent = o.agentId)
                  /\ DecayScore(M[m], o) < o.decayThreshold}
FindDecayedMemories(M, o) ==
  {m \in MemIds : /\ M[m].cat # "none"
                  /\ M[m].cat # "core"
                  /\ (o.agentId = NoAgent \/ M[m].agent = o.agentId)
                  /\ DecayScore(M[m], o) < o.decayThreshold}

\* pruneMemories: delete the listed memories that exist, decrementing the
\* mention counts of their entities in the same statement.
PruneMemories(M, E, ids) ==
  LET hit == {m \in ids : M[m].cat # "none"}
  IN [mem |-> DetachDelete(M, hit), ents |-> DecrementMentions(M, E, hit),
      deleted |-> Cardinality(hit)]

\* ------------------------------------------ store client: conflict pairs
\* Pairs m1.id < m2.id sharing an entity, both non-core, both in scope.
FindConflictingMemories(M, agentId) ==
  {p \in MemIds \X MemIds :
     /\ p[1] < p[2]
     /\ M[p[1]].cat \notin {"none", "core"}
     /\ M[p[2]].cat \notin {"none", "core"}
     /\ (agentId = NoAgent \/ (M[p[1]].agent = agentId /\ M[p[2]].agent = agentId))
     /\ M[p[1]].ents \cap M[p[2]].ents # {}}

RECURSIVE PairSeq(_)
PairSeq(P) ==
  IF P = {} THEN <<>>
  ELSE LET lo == CHOOSE p \in P : \A q \in P :
                   p[1] < q[1] \/ (p[1] = q[1] /\ p[2] <= q[2])
       IN <<lo>> \o PairSeq(P \ {lo})

\* ------------------------------------------------ store client: entities
NoEnt == [node |-> FALSE, mc |-> 0]
MentionsOf(M, e) == {m \in MemIds : M[m].cat # "none" /\ e \in M[m].ents}
TaggedBy(M, t) == {m \in MemIds : M[m].cat # "none" /\ t \in M[m].tags}

\* reconcileEntityMentionCounts: entities whose mentionCount IS NULL (-1)
\* get the count of their MENTIONS edges.
ReconcileEntityMentionCounts(M, E) ==
  [e \in EntIds |->
     IF E[e].node /\ E[e].mc < 0
     THEN [E[e] EXCEPT !.mc = Cardinality(MentionsOf(M, e))]
     ELSE E[e]]

\* Entity names: "e1" is a prefix of "e2" (same type), so the two form a
\* duplicate pair with e1.name < e2.name; their lengths decide ties.
NameLen(e) == IF e = "e1" THEN 3 ELSE 9

\* Reference variant: the entity with fewer mentions kept.
FindDuplicateEntityPairsFewer(E) ==
  IF E["e1"].node /\ E["e2"].node
  THEN LET mc1 == Max2(0, E["e1"].mc)
           mc2 == Max2(0, E["e2"].mc)
           keepFirst == mc1 < mc2 \/ (mc1 = mc2 /\ NameLen("e1") > NameLen("e2"))
       IN <<IF keepFirst THEN [keepId |-> "e1", removeId |-> "e2"]
                         ELSE [keepId |-> "e2", removeId |-> "e1"]>>
  ELSE <<>>

\* findDuplicateEntityPairs: the pair, as (keepId, removeId): keep the one
\* with more mentions (coalesce(mentionCount, 0)), on a tie the shorter name.
FindDuplicateEntityPairs(E) ==
  IF E["e1"].node /\ E["e2"].node
  THEN LET mc1 == Max2(0, E["e1"].mc)
           mc2 == Max2(0, E["e2"].mc)
           keepFirst == mc1 > mc2 \/ (mc1 = mc2 /\ NameLen("e1") <= NameLen("e2"))
       IN <<IF keepFirst THEN [keepId |-> "e1", removeId |-> "e2"]
                         ELSE [keepId |-> "e2", removeId |-> "e1"]>>
  ELSE <<>>

\* mergeEntityPair: move the MENTIONS edges of `remove` to `keep` (MERGE),
\* add the number of moved rows to keep's mentionCount, delete `remove`.
MergeEntityPair(M, E, keep, remove) ==
  LET rows == IF E[keep].node /\ E[remove].node THEN MentionsOf(M, remove) ELSE {}
      n == Cardinality(rows)
      M1 == [m \in MemIds |->
               IF m \in rows
               THEN [M[m] EXCEPT !.ents = (@ \ {remove}) \cup {keep}]
               ELSE IF M[m].cat # "none"
                    THEN [M[m] EXCEPT !.ents = @ \ {remove}]
                    ELSE M[m]]
      E1 == [E EXCEPT ![keep] = IF n > 0 THEN [@ EXCEPT !.mc = Max2(0, @) + n] ELSE @,
                      ![remove] = NoEnt]
  IN [mem |-> M1, ents |-> E1]

\* findOrphanEntities / deleteOrphanEntities
FindOrphanEntities(M, E) == {e \in EntIds : E[e].node /\ MentionsOf(M, e) = {}}
DeleteEntities(M, E, ids) ==
  [mem |-> [m \in MemIds |-> IF M[m].cat # "none"
                             THEN [M[m] EXCEPT !.ents = @ \ ids] ELSE M[m]],
   ents |-> [e \in EntIds |-> IF e \in ids THEN NoEnt ELSE E[e]]]

\* findOrphanTags / findSingleUseTags / deleteOrphanTags.  A tag is "old"
\* when its createdAt is before the single-use cutoff, else "new".
FindOrphanTags(M, T) == {t \in TagIds : T[t] # "none" /\ TaggedBy(M, t) = {}}
FindSingleUseTags(M, T) == {t \in TagIds : T[t] = "old" /\ Cardinality(TaggedBy(M, t)) = 1}
DeleteTags(M, T, ids) ==
  [mem |-> [m \in MemIds |-> IF M[m].cat # "none"
                             THEN [M[m] EXCEPT !.tags = @ \ ids] ELSE M[m]],
   tags |-> [t \in TagIds |-> IF t \in ids THEN "none" ELSE T[t]]]

\* ------------------------------------------- store client: extraction write
\* batchEntityOperations(memoryId, entities, relationships, tags, category):
\* MERGE the entities (mentionCount 1 on create, +1 on match; NULL + 1 is
\* NULL), MERGE the MENTIONS and TAGGED edges when the memory exists, set
\* the category when the current one is 'other', mark extraction complete.
BatchEntityOperations(M, E, T, id, es, ts, category) ==
  LET E1 == [e \in EntIds |->
               IF e \notin es THEN E[e]
               ELSE IF E[e].node
                    THEN [E[e] EXCEPT !.mc = IF @ < 0 THEN @ ELSE @ + 1]
                    ELSE [node |-> TRUE, mc |-> 1]]
      T1 == [t \in TagIds |-> IF t \in ts /\ T[t] = "none" THEN "new" ELSE T[t]]
      M1 == IF M[id].cat = "none" THEN M
            ELSE [M EXCEPT ![id].ents = @ \cup es,
                           ![id].tags = @ \cup ts,
                           ![id].st = "complete",
                           ![id].cat = IF category # "none" /\ @ = "other"
                                       THEN category ELSE @]
  IN [mem |-> M1, ents |-> E1, tags |-> T1]

\* updateExtractionStatus(id, status, {incrementRetries})
UpdateExtractionStatus(M, id, status) ==
  IF M[id].cat = "none" THEN M ELSE [M EXCEPT ![id].st = status]

\* listPendingExtractions(limit, agentId)
ListPendingExtractions(M, agentId) ==
  {m \in MemIds : /\ M[m].cat # "none" /\ M[m].st = "pending"
                  /\ (agentId = NoAgent \/ M[m].agent = agentId)}

\* ------------------------------------- store client: noise and credentials
\* m.text =~ pattern k of the seven noise patterns: a "noise" text is an
\* open offer of the form "should I ...?", the second pattern.
MatchesNoisePattern(txt, k) == txt = "noise" /\ k = 2

\* deleteMemoriesByPattern: non-core memories in scope whose text matches.
DeleteMemoriesByPattern(M, k, agentId) ==
  {m \in MemIds : /\ M[m].cat # "none"
                  /\ M[m].cat # "core"
                  /\ MatchesNoisePattern(M[m].txt, k)
                  /\ (agentId = NoAgent \/ M[m].agent = agentId)}

\* detectCredential(text): the text matches one of CREDENTIAL_PATTERNS.
DetectCredential(txt) == txt = "cred"

\* A scan that passes over core memories, as the noise cleanup does.
FetchNonCoreForScan(M, agentId) ==
  {m \in MemIds : /\ M[m].cat # "none" /\ M[m].cat # "core"
                  /\ (agentId = NoAgent \/ M[m].agent = agentId)}

\* fetchAllMemoriesForScan(agentId): every memory in scope, core included.
FetchAllMemoriesForScan(M, agentId) ==
  {m \in MemIds : M[m].cat # "none" /\ (agentId = NoAgent \/ M[m].agent = agentId)}

\* ------------------------------------------------ runSleepCycle: control
LlmConcurrency == 8
MaxSemanticDedupPairs == 500

LocInit == [cl |-> <<>>, med |-> <<>>, pairs |-> <<>>, i |-> 0, batch |-> <<>>,
            outs |-> <<>>, k |-> 0, inval |-> {}, ids |-> {}]

\* The phase whose code contains the await the run is suspended at (0: the
\* run has not started or has returned).
PhaseOfPc(p) ==
  CASE p \in {"findDuplicateClusters", "mergeMemoryCluster"} -> 1
    [] p \in {"isSemanticDuplicate", "semInvalidateMemory"} -> 2
    [] p \in {"findConflictingMemories", "resolveConflict", "conflictInvalidateMemory"} -> 3
    [] p \in {"reconcileEntityMentionCounts", "findDuplicateEntityPairs", "mergeEntityPair"} -> 4
    [] p \in {"countByExtractionStatus", "listPendingExtractions",
              "runBackgroundExtraction", "extractionDelay"} -> 5
    [] p \in {"findDecayedMemories", "pruneMemories"} -> 6
    [] p \in {"findOrphanEntities", "deleteOrphanEntities", "findOrphanTags",
              "deleteOrphanTags", "findSingleUseTags", "deleteSingleUseTags"} -> 7
    [] p = "deleteMemoriesByPattern" -> 8
    [] p \in {"fetchAllMemoriesForScan", "deleteMemoriesByIds"} -> 9
    [] p = "reviewAndArchiveStaleTasks" -> 10
    [] OTHER -> 0

\* The first await of a phase that is entered through its own if-guard.
FirstAwait(j) ==
  CASE j = 1 -> "findDuplicateClusters"
    [] j = 3 -> "findConflictingMemories"
    [] j = 4 -> "reconcileEntityMentionCounts"
    [] j = 5 -> "countByExtractionStatus"
    [] j = 6 -> "findDecayedMemories"
    [] j = 7 -> "findOrphanEntities"
    [] j = 8 -> "deleteMemoriesByPattern"
    [] j = 9 -> "fetchAllMemoriesForScan"
    [] j = 10 -> "reviewAndArchiveStaleTasks"

\* The option part of the if-guard of phase j (semantic dedup, j = 2, has no
\* guard of its own: it is entered from inside the dedup try block).
PhaseOption(j, o) ==
  CASE j = 2 -> FALSE
    [] j = 3 -> ~o.skipSemanticDedup
    [] j = 5 -> o.configEnabled
    [] j = 10 -> o.workspaceDir
    [] OTHER -> TRUE

\* The phase the run enters after the code of phase k: the guards
\* `if (!abortSignal?.aborted [&& option])` are evaluated in order without
\* an await, so the first one that passes wins; 0 when none does.
NextPhaseIgnoringAbort(k, ab, o) ==
  IF \E j \in (k + 1)..Len(Phases) : PhaseOption(j, o)
  THEN CHOOSE j \in (k + 1)..Len(Phases) :
         PhaseOption(j, o) /\ \A h \in (k + 1)..(j - 1) : ~PhaseOption(h, o)
  ELSE 0
NextPhaseDecayFirst(k, ab, o) ==
  IF ab THEN 0
  ELSE IF k = 5 THEN NextPhaseIgnoringAbort(6, ab, o)
  ELSE IF k = 6 THEN (IF o.configEnabled THEN 5 ELSE NextPhaseIgnoringAbort(6, ab, o))
  ELSE IF NextPhaseIgnoringAbort(k, ab, o) = 5 THEN 6
  ELSE NextPhaseIgnoringAbort(k, ab, o)
NextPhase(k, ab, o) ==
  IF ab THEN 0
  ELSE IF \E j \in (k + 1)..Len(Phases) : PhaseOption(j, o)
  THEN CHOOSE j \in (k + 1)..Len(Phases) :
         PhaseOption(j, o) /\ \A h \in (k + 1)..(j - 1) : ~PhaseOption(h, o)
  ELSE 0

\* The control state of the run as one record, so that the synchronous
\* code between two awaits composes as functions on it.
Ctl == [pc |-> pc, loc |-> loc, started |-> started, hist |-> hist, result |-> result]

\* onPhaseStart?.(phase)
Notify(c, j) ==
  [c EXCEPT !.started = Append(@, Phases[j]),
            !.hist.startAb = IF aborted THEN @ \cup {j} ELSE @]

\* A phase issues its first store or LLM call.
FirstCall(c, j) ==
  IF j \in c.hist.called THEN c
  ELSE [c EXCEPT !.hist.called = @ \cup {j},
                 !.hist.callAb = IF aborted THEN @ \cup {j} ELSE @]

\* A destructive store call of phase j has completed.
Wrote(c, j) == [c EXCEPT !.hist.dw = IF aborted THEN @ \cup {j} ELSE @,
                         !.hist.wrote = @ \cup {j}]

\* Control leaves the code of phase k (its try block is over): the guards of
\* the later phases, then `result.aborted = abortSignal?.aborted ?? false`.
Leave(c, k) ==
  LET j == NextPhase(k, aborted, opts)
  IN IF j = 0
     THEN [c EXCEPT !.pc = "done", !.loc = LocInit,
                    !.result.aborted = aborted, !.result.returned = TRUE]
     ELSE [FirstCall(Notify(c, j), j) EXCEPT !.pc = FirstAwait(j), !.loc = LocInit]

\* The try block that holds the code of phase p ends before the guard of the
\* phase after TryEnd(p): dedup and semantic dedup share one try block.
TryEnd(p) == IF p = 1 THEN 2 ELSE p

\* catch (err) { logger.warn(...) } of the try block around phase p.
Catch(c, p) == Leave([c EXCEPT !.hist.threw = @ \cup {p}], TryEnd(p))

SetCtl(c) ==
  /\ pc' = c.pc
  /\ loc' = c.loc
  /\ started' = c.started
  /\ hist' = c.hist
  /\ result' = c.result

\* A store call of the run completes: ensureInitialized has succeeded.  A
\* call that throws leaves the client as it was (initialisation failed, or
\* the query failed after its retries).
StoreCallOk == ready' = TRUE
MayThrow == Cardinality(hist.threw) < MaxThrows
StoreCallThrows == MayThrow /\ ready' = ready

\* --------------------------------------- runSleepCycle: dedup (phase 1, 1b)
RECURSIVE SeqFilterHigh(_, _)
SeqFilterHigh(cs, high) ==
  IF cs = <<>> THEN <<>>
  ELSE (IF HasHighSim(Head(cs)) = high THEN <<Head(cs)>> ELSE <<>>)
       \o SeqFilterHigh(Tail(cs), high)

\* The candidate pairs of one medium-similarity cluster, i < j.
RECURSIVE ClusterPairsFrom(_, _, _)
ClusterPairsFrom(c, i, j) ==
  IF i >= Len(c.ids) THEN <<>>
  ELSE IF j > Len(c.ids) THEN ClusterPairsFrom(c, i + 1, i + 2)
  ELSE <<[idA |-> c.ids[i], idB |-> c.ids[j], impA |-> c.imps[i],
          impB |-> c.imps[j], sim |-> PairSimilarity(c, i, j)]>>
       \o ClusterPairsFrom(c, i, j + 1)

RECURSIVE AllPairs(_)
AllPairs(cs) ==
  IF cs = <<>> THEN <<>>
  ELSE ClusterPairsFrom(Head(cs), 1, 2) \o AllPairs(Tail(cs))

\* allPairs.sort((a, b) => (b.similarity ?? 0) - (a.similarity ?? 0)), stable.
SimOrZero(p) == IF p.sim < 0 THEN 0 ELSE p.sim
RECURSIVE SortBySimDesc(_)
SortBySimDesc(ps) ==
  IF ps = <<>> THEN <<>>
  ELSE LET b == CHOOSE i \in 1..Len(ps) :
                  /\ \A j \in 1..Len(ps) : SimOrZero(ps[j]) <= SimOrZero(ps[i])
                  /\ \A j \in 1..(i - 1) : SimOrZero(ps[j]) < SimOrZero(ps[i])
       IN <<ps[b]>> \o SortBySimDesc(SubSeq(ps, 1, b - 1) \o SubSeq(ps, b + 1, Len(ps)))

CapPairs(ps, max) ==
  IF Len(ps) > max THEN SubSeq(SortBySimDesc(ps), 1, max) ELSE ps

\* batch.filter(p => !invalidatedIds.has(p.idA) && !invalidatedIds.has(p.idB))
ActiveBatch(ps, i, inval) ==
  SelectSeq(SubSeq(ps, i, Min2(i + LlmConcurrency - 1, Len(ps))),
            LAMBDA p : p.idA \notin inval /\ p.idB \notin inval)

\* for (let i = 0; i < allPairs.length && !aborted; i += llmConcurrency):
\* up to the await of the next non-empty batch, or out of the phase.
RECURSIVE SemLoop(_)
SemLoop(c) ==
  IF c.loc.i > Len(c.loc.pairs) \/ aborted THEN Leave(c, 2)
  ELSE LET b == ActiveBatch(c.loc.pairs, c.loc.i, c.loc.inval)
           n == [c EXCEPT !.loc.i = @ + LlmConcurrency]
       IN IF b = <<>> THEN SemLoop(n)
          ELSE [FirstCall(n, 2) EXCEPT !.pc = "isSemanticDuplicate", !.loc.batch = b,
                                       !.loc.outs = <<>>, !.loc.k = 0]

\* for (let k = 0; k < outcomes.length; k++): up to the next
\* `await db.invalidateMemory(removeId)`, or back to the batch loop.
RECURSIVE SemOutcomes(_, _)
SemOutcomes(c, k) ==
  IF k > Len(c.loc.outs) THEN SemLoop(c)
  ELSE IF /\ c.loc.outs[k]
          /\ c.loc.batch[k].idA \notin c.loc.inval
          /\ c.loc.batch[k].idB \notin c.loc.inval
       THEN [c EXCEPT !.pc = "semInvalidateMemory", !.loc.k = k]
       ELSE SemOutcomes(c, k + 1)

\* Reference variant: the kept side taken for the removed one.
RemoveKeptId(p) == IF p.impA >= p.impB THEN p.idA ELSE p.idB

\* keepId = importanceA >= importanceB ? idA : idB; removeId is the other.
RemoveId(p) == IF p.impA >= p.impB THEN p.idB ELSE p.idA

\* Part 1b: the phase-start notification (no abort test before it), then
\* either the skip branch or the pair collection and the batch loop.
EnterSemantic(c, med) ==
  LET n == Notify(c, 2)
  IN IF opts.skipSemanticDedup THEN Leave(n, 2)
     ELSE SemLoop([n EXCEPT !.loc = [LocInit EXCEPT !.pairs =
                                       CapPairs(AllPairs(med), MaxSemanticDedupPairs),
                                     !.i = 1]])

\* for (const cluster of highSimClusters) { if (aborted) break; await merge }
MergeLoop(c, i) ==
  IF i <= Len(c.loc.cl) /\ ~aborted
  THEN [c EXCEPT !.pc = "mergeMemoryCluster", !.loc.i = i]
  ELSE EnterSemantic(c, c.loc.med)

\* runSleepCycle is called: the guard of phase 1 and those after it.
StartSleepCycle ==
  /\ pc = "idle"
  /\ SetCtl(Leave(Ctl, 0))
  /\ UNCHANGED <<mem, ents, tags, ready, aborted, opts, ms, cst>>

\* sleepAbortController.abort() (service stop, or the caller's signal).
Abort ==
  /\ ~aborted
  /\ aborted' = TRUE
  /\ hist' = [hist EXCEPT !.abortAt = PhaseOfPc(pc)]
  /\ UNCHANGED <<mem, ents, tags, ready, opts, pc, loc, result, started, ms, cst>>

\* await db.findDuplicateClusters(0.75, agentId, true), then the split loop
\* (which breaks at once when aborted) and the start of the merge loop.
FindDuplicateClustersDone ==
  /\ pc = "findDuplicateClusters"
  /\ \/ /\ StoreCallThrows
        /\ SetCtl(Catch(Ctl, 1))
     \/ /\ StoreCallOk
        /\ LET all == FindDuplicateClusters(mem, ClusterThreshold, opts.agentId)
               seen == IF aborted THEN <<>> ELSE all
               c == [Ctl EXCEPT !.loc.cl = SeqFilterHigh(seen, TRUE),
                                !.loc.med = SeqFilterHigh(seen, FALSE)]
           IN SetCtl(MergeLoop(c, 1))
  /\ UNCHANGED <<mem, ents, tags, aborted, opts, ms, cst>>

\* await db.mergeMemoryCluster(cluster.memoryIds, cluster.importances)
MergeMemoryClusterDone ==
  /\ pc = "mergeMemoryCluster"
  /\ \/ /\ StoreCallThrows
        /\ SetCtl(Catch(Ctl, 1))
        /\ UNCHANGED mem
     \/ /\ StoreCallOk
        /\ LET cl == loc.cl[loc.i]
               r == MergeMemoryCluster(mem, cl.ids, cl.imps)
           IN /\ mem' = r.mem
              /\ SetCtl(MergeLoop(Wrote(Ctl, 1), loc.i + 1))
  /\ UNCHANGED <<ents, tags, aborted, opts, ms, cst>>

\* isSemanticDuplicate(textA, textB, config, similarity, abortSignal): false
\* without an LLM call when extraction is disabled or the vector similarity
\* is known and below the pre-screen threshold; else the LLM's verdict
\* (false on any error).
SemanticVerdicts(p, o) ==
  IF ~o.configEnabled \/ (p.sim >= 0 /\ p.sim < SemanticVectorThreshold)
  THEN {FALSE} ELSE {TRUE, FALSE}

\* await Promise.allSettled(activeBatch.map(isSemanticDuplicate))
IsSemanticDuplicateDone ==
  /\ pc = "isSemanticDuplicate"
  /\ \E outs \in [1..Len(loc.batch) -> BOOLEAN] :
       /\ \A k \in 1..Len(loc.batch) : outs[k] \in SemanticVerdicts(loc.batch[k], opts)
       /\ SetCtl(SemOutcomes([Ctl EXCEPT !.loc.outs = outs], 1))
  /\ UNCHANGED <<mem, ents, tags, ready, aborted, opts, ms, cst>>

\* await db.invalidateMemory(removeId) of the semantic dedup loop
SemInvalidateMemoryDone ==
  /\ pc = "semInvalidateMemory"
  /\ \/ /\ StoreCallThrows
        /\ SetCtl(Catch(Ctl, 2))
        /\ UNCHANGED mem
     \/ /\ StoreCallOk
        /\ LET rid == RemoveId(loc.batch[loc.k])
               c == [Wrote(Ctl, 2) EXCEPT !.loc.inval = @ \cup {rid},
                                          !.hist.inv = @ \cup {rid}]
           IN /\ mem' = InvalidateMemory(mem, rid)
              /\ SetCtl(SemOutcomes(c, loc.k + 1))
  /\ UNCHANGED <<ents, tags, aborted, opts, ms, cst>>

\* ------------------------------------------- runSleepCycle: conflict (1c)
\* for (let i = 0; i < pairs.length && !aborted; i += llmConcurrency)
ConflictLoop(c) ==
  IF c.loc.i > Len(c.loc.pairs) \/ aborted THEN Leave(c, 3)
  ELSE [c EXCEPT !.pc = "resolveConflict",
                 !.loc.batch = SubSeq(c.loc.pairs, c.loc.i,
                                      Min2(c.loc.i + LlmConcurrency - 1, Len(c.loc.pairs))),
                 !.loc.i = @ + LlmConcurrency, !.loc.outs = <<>>, !.loc.k = 0]

\* for (let k = 0; k < outcomes.length; k++) { if (aborted) break; ... }:
\* "both" counts as resolved on the spot, "skip" and a rejection count nothing.
RECURSIVE ConflictOutcomes(_, _)
ConflictOutcomes(c, k) ==
  IF k > Len(c.loc.outs) \/ aborted THEN ConflictLoop(c)
  ELSE IF c.loc.outs[k] \in {"a", "b"}
       THEN [c EXCEPT !.pc = "conflictInvalidateMemory", !.loc.k = k]
       ELSE IF c.loc.outs[k] = "both"
            THEN ConflictOutcomes([c EXCEPT !.result.resolved = @ + 1], k + 1)
            ELSE ConflictOutcomes(c, k + 1)

\* await db.findConflictingMemories(agentId)
FindConflictingMemoriesDone ==
  /\ pc = "findConflictingMemories"
  /\ \/ /\ StoreCallThrows
        /\ SetCtl(Catch(Ctl, 3))
     \/ /\ StoreCallOk
        /\ SetCtl(ConflictLoop([Ctl EXCEPT
             !.loc.pairs = PairSeq(FindConflictingMemories(mem, opts.agentId)),
             !.loc.i = 1]))
  /\ UNCHANGED <<mem, ents, tags, aborted, opts, ms, cst>>

\* resolveConflict(textA, textB, config, abortSignal): "skip" when the config
\* is disabled or the LLM is unavailable, else the LLM's decision.  A
\* rejected promise is skipped by the caller like "skip".
ConflictDecisions(o) == IF o.configEnabled THEN {"a", "b", "both", "skip"} ELSE {"skip"}

\* await Promise.allSettled(chunk.map(resolveConflict))
ResolveConflictDone ==
  /\ pc = "resolveConflict"
  /\ \E outs \in [1..Len(loc.batch) -> ConflictDecisions(opts)] :
       SetCtl(ConflictOutcomes([Ctl EXCEPT !.loc.outs = outs], 1))
  /\ UNCHANGED <<mem, ents, tags, ready, aborted, opts, ms, cst>>

\* Reference variant: the kept side invalidated.
ConflictInvalidateKeptDone ==
  /\ pc = "conflictInvalidateMemory"
  /\ \/ /\ StoreCallThrows
        /\ SetCtl(Catch(Ctl, 3))
        /\ UNCHANGED mem
     \/ /\ StoreCallOk
        /\ LET pr == loc.batch[loc.k]
               rid == IF loc.outs[loc.k] = "a" THEN pr[1] ELSE pr[2]
           IN /\ mem' = InvalidateMemory(mem, rid)
              /\ SetCtl(ConflictOutcomes([Wrote(Ctl, 3) EXCEPT !.hist.inv = @ \cup {rid},
                                                               !.result.resolved = @ + 1],
                                         loc.k + 1))
  /\ UNCHANGED <<ents, tags, aborted, opts, ms, cst>>

\* await db.invalidateMemory(pair.memoryB.id) for "a", (pair.memoryA.id) for
\* "b"; then result.conflict.resolved++
ConflictInvalidateMemoryDone ==
  /\ pc = "conflictInvalidateMemory"
  /\ \/ /\ StoreCallThrows
        /\ SetCtl(Catch(Ctl, 3))
        /\ UNCHANGED mem
     \/ /\ StoreCallOk
        /\ LET pr == loc.batch[loc.k]
               rid == IF loc.outs[loc.k] = "a" THEN pr[2] ELSE pr[1]
           IN /\ mem' = InvalidateMemory(mem, rid)
              /\ SetCtl(ConflictOutcomes([Wrote(Ctl, 3) EXCEPT !.hist.inv = @ \cup {rid},
                                                               !.result.resolved = @ + 1],
                                         loc.k + 1))
  /\ UNCHANGED <<ents, tags, aborted, opts, ms, cst>>

\* ----------------------------------------- runSleepCycle: entity dedup (1d)
\* for (const pair of pairs) { if (aborted) break; if (removed) continue; ... }
RECURSIVE EntityLoop(_, _)
EntityLoop(c, i) ==
  IF i > Len(c.loc.pairs) \/ aborted THEN Leave(c, 4)
  ELSE IF c.loc.pairs[i].keepId \in c.loc.ids \/ c.loc.pairs[i].removeId \in c.loc.ids
       THEN EntityLoop(c, i + 1)
       ELSE [c EXCEPT !.pc = "mergeEntityPair", !.loc.i = i]

\* await db.reconcileEntityMentionCounts()
ReconcileEntityMentionCountsDone ==
  /\ pc = "reconcileEntityMentionCounts"
  /\ \/ /\ StoreCallThrows
        /\ SetCtl(Catch(Ctl, 4))
        /\ UNCHANGED ents
     \/ /\ StoreCallOk
        /\ ents' = ReconcileEntityMentionCounts(mem, ents)
        /\ SetCtl([Ctl EXCEPT !.pc = "findDuplicateEntityPairs"])
  /\ UNCHANGED <<mem, tags, aborted, opts, ms, cst>>

\* await db.findDuplicateEntityPairs(agentId)
FindDuplicateEntityPairsDone ==
  /\ pc = "findDuplicateEntityPairs"
  /\ \/ /\ StoreCallThrows
        /\ SetCtl(Catch(Ctl, 4))
     \/ /\ StoreCallOk
        /\ SetCtl(EntityLoop([Ctl EXCEPT !.loc.pairs = FindDuplicateEntityPairs(ents)], 1))
  /\ UNCHANGED <<mem, ents, tags, aborted, opts, ms, cst>>

\* await db.mergeEntityPair(keepId, removeId): true after the write
\* transaction, false when it failed (rolled back); throws only when the
\* client cannot initialise.
MergeEntityPairDone ==
  /\ pc = "mergeEntityPair"
  /\ \/ /\ StoreCallThrows
        /\ SetCtl(Catch(Ctl, 4))
        /\ UNCHANGED <<mem, ents>>
     \/ /\ StoreCallOk
        /\ SetCtl(EntityLoop(Ctl, loc.i + 1))
        /\ UNCHANGED <<mem, ents>>
     \/ /\ StoreCallOk
        /\ LET pr == loc.pairs[loc.i]
               r == MergeEntityPair(mem, ents, pr.keepId, pr.removeId)
           IN /\ mem' = r.mem
              /\ ents' = r.ents
              /\ SetCtl(EntityLoop([Wrote(Ctl, 4) EXCEPT !.loc.ids = @ \cup {pr.removeId}],
                                   loc.i + 1))
  /\ UNCHANGED <<tags, aborted, opts, ms, cst>>

\* --------------------------------------------- runSleepCycle: extraction (2)
\* runBackgroundExtraction(id, text, ...) settles as: the extraction result
\* written in one batch (complete), a permanent failure (failed), or a
\* transient failure that leaves the memory pending.  Categories the
\* extractor accepts: preference, fact, decision, entity, other.
ExtractionOutcomes ==
  {[kind |-> "complete", es |-> {"e1"}, ts |-> {"t1"}, cat |-> "fact"],
   [kind |-> "complete", es |-> {}, ts |-> {}, cat |-> "none"],
   [kind |-> "failed", es |-> {}, ts |-> {}, cat |-> "none"],
   [kind |-> "pending", es |-> {}, ts |-> {}, cat |-> "none"]}

RunBackgroundExtraction(S, id, out) ==
  IF out.kind = "complete"
  THEN BatchEntityOperations(S.mem, S.ents, S.tags, id, out.es, out.ts, out.cat)
  ELSE IF out.kind = "failed"
  THEN [S EXCEPT !.mem = UpdateExtractionStatus(S.mem, id, "failed")]
  ELSE S

RECURSIVE ExtractChunk(_, _, _, _)
ExtractChunk(S, ids, outs, k) ==
  IF k > Len(ids) THEN S
  ELSE ExtractChunk(RunBackgroundExtraction(S, ids[k], outs[k]), ids, outs, k + 1)

\* while (hasMore && !aborted) { pending = await listPendingExtractions(...) }
ExtractionWhile(c) ==
  IF aborted THEN Leave(c, 5) ELSE [c EXCEPT !.pc = "listPendingExtractions"]

\* for (let i = 0; i < pending.length && !aborted; i += llmConcurrency),
\* then `if (hasMore && !aborted) await delay`, then the while test.
ExtractionFor(c) ==
  IF c.loc.i <= Len(c.loc.pairs) /\ ~aborted
  THEN [c EXCEPT !.pc = "runBackgroundExtraction",
                 !.loc.batch = SubSeq(c.loc.pairs, c.loc.i,
                                      Min2(c.loc.i + LlmConcurrency - 1, Len(c.loc.pairs))),
                 !.loc.i = @ + LlmConcurrency]
  ELSE IF ~aborted THEN [c EXCEPT !.pc = "extractionDelay"]
  ELSE Leave(c, 5)

\* await db.countByExtractionStatus(agentId)
CountByExtractionStatusDone ==
  /\ pc = "countByExtractionStatus"
  /\ \/ /\ StoreCallThrows
        /\ SetCtl(Catch(Ctl, 5))
     \/ /\ StoreCallOk
        /\ IF ListPendingExtractions(mem, opts.agentId) # {}
           THEN SetCtl(ExtractionWhile(Ctl))
           ELSE SetCtl(Leave(Ctl, 5))
  /\ UNCHANGED <<mem, ents, tags, aborted, opts, ms, cst>>

\* await db.listPendingExtractions(extractionBatchSize, agentId)
ListPendingExtractionsDone ==
  /\ pc = "listPendingExtractions"
  /\ \/ /\ StoreCallThrows
        /\ SetCtl(Catch(Ctl, 5))
     \/ /\ StoreCallOk
        /\ LET pending == SortedSeq(ListPendingExtractions(mem, opts.agentId))
           IN IF pending = <<>> THEN SetCtl(Leave(Ctl, 5))
              ELSE SetCtl(ExtractionFor([Ctl EXCEPT !.loc.pairs = pending, !.loc.i = 1]))
  /\ UNCHANGED <<mem, ents, tags, aborted, opts, ms, cst>>

\* await Promise.allSettled(chunk.map(runBackgroundExtraction))
RunBackgroundExtractionDone ==
  /\ pc = "runBackgroundExtraction"
  /\ \E outs \in [1..Len(loc.batch) -> ExtractionOutcomes] :
       LET S == ExtractChunk([mem |-> mem, ents |-> ents, tags |-> tags], loc.batch, outs, 1)
       IN /\ mem' = S.mem
          /\ ents' = S.ents
          /\ tags' = S.tags
  /\ SetCtl(ExtractionFor(Ctl))
  /\ UNCHANGED <<ready, aborted, opts, ms, cst>>

\* The delay between batches resolves (timer, or the abort listener).
ExtractionDelayDone ==
  /\ pc = "extractionDelay"
  /\ SetCtl(ExtractionWhile(Ctl))
  /\ UNCHANGED <<mem, ents, tags, ready, aborted, opts, ms, cst>>

\* -------------------------------------------------- runSleepCycle: decay (3)
\* await db.findDecayedMemories({...})
FindDecayedMemoriesDone ==
  /\ pc = "findDecayedMemories"
  /\ \/ /\ StoreCallThrows
        /\ SetCtl(Catch(Ctl, 6))
     \/ /\ StoreCallOk
        /\ LET ids == FindDecayedMemories(mem, opts)
           IN IF ids # {}
              THEN SetCtl([Ctl EXCEPT !.pc = "pruneMemories", !.loc.ids = ids])
              ELSE SetCtl(Leave(Ctl, 6))
  /\ UNCHANGED <<mem, ents, tags, aborted, opts, ms, cst>>

\* await db.pruneMemories(ids)
PruneMemoriesDone ==
  /\ pc = "pruneMemories"
  /\ \/ /\ StoreCallThrows
        /\ SetCtl(Catch(Ctl, 6))
        /\ UNCHANGED <<mem, ents>>
     \/ /\ StoreCallOk
        /\ LET r == PruneMemories(mem, ents, loc.ids)
           IN /\ mem' = r.mem
              /\ ents' = r.ents
              /\ SetCtl(Leave([Wrote(Ctl, 6) EXCEPT !.result.pruned = r.deleted], 6))
  /\ UNCHANGED <<tags, aborted, opts, ms, cst>>

\* ------------------------------------------------ runSleepCycle: cleanup (4)
\* The three `if (!abortSignal?.aborted) { find...; if (n > 0) delete... }`
\* blocks, from block n on.
CleanupStep(c, n) ==
  IF n > 3 \/ aborted THEN Leave(c, 7)
  ELSE [c EXCEPT !.pc = IF n = 1 THEN "findOrphanEntities"
                        ELSE IF n = 2 THEN "findOrphanTags" ELSE "findSingleUseTags",
                 !.loc.ids = {}]

FindOrphanEntitiesDone ==
  /\ pc = "findOrphanEntities"
  /\ \/ /\ StoreCallThrows
        /\ SetCtl(Catch(Ctl, 7))
     \/ /\ StoreCallOk
        /\ LET ids == FindOrphanEntities(mem, ents)
           IN IF ids # {}
              THEN SetCtl([Ctl EXCEPT !.pc = "deleteOrphanEntities", !.loc.ids = ids])
              ELSE SetCtl(CleanupStep(Ctl, 2))
  /\ UNCHANGED <<mem, ents, tags, aborted, opts, ms, cst>>

DeleteOrphanEntitiesDone ==
  /\ pc = "deleteOrphanEntities"
  /\ \/ /\ StoreCallThrows
        /\ SetCtl(Catch(Ctl, 7))
        /\ UNCHANGED <<mem, ents>>
     \/ /\ StoreCallOk
        /\ LET r == DeleteEntities(mem, ents, loc.ids)
           IN /\ mem' = r.mem
              /\ ents' = r.ents
              /\ SetCtl(CleanupStep(Wrote(Ctl, 7), 2))
  /\ UNCHANGED <<tags, aborted, opts, ms, cst>>

FindOrphanTagsDone ==
  /\ pc = "findOrphanTags"
  /\ \/ /\ StoreCallThrows
        /\ SetCtl(Catch(Ctl, 7))
     \/ /\ StoreCallOk
        /\ LET ids == FindOrphanTags(mem, tags)
           IN IF ids # {}
              THEN SetCtl([Ctl EXCEPT !.pc = "deleteOrphanTags", !.loc.ids = ids])
              ELSE SetCtl(CleanupStep(Ctl, 3))
  /\ UNCHANGED <<mem, ents, tags, aborted, opts, ms, cst>>

DeleteOrphanTagsDone ==
  /\ pc = "deleteOrphanTags"
  /\ \/ /\ StoreCallThrows
        /\ SetCtl(Catch(Ctl, 7))
        /\ UNCHANGED <<mem, tags>>
     \/ /\ StoreCallOk
        /\ LET r == DeleteTags(mem, tags, loc.ids)
           IN /\ mem' = r.mem
              /\ tags' = r.tags
              /\ SetCtl(CleanupStep(Wrote(Ctl, 7), 3))
  /\ UNCHANGED <<ents, aborted, opts, ms, cst>>

FindSingleUseTagsDone ==
  /\ pc = "findSingleUseTags"
  /\ \/ /\ StoreCallThrows
        /\ SetCtl(Catch(Ctl, 7))
     \/ /\ StoreCallOk
        /\ LET ids == FindSingleUseTags(mem, tags)
           IN IF ids # {}
              THEN SetCtl([Ctl EXCEPT !.pc = "deleteSingleUseTags", !.loc.ids = ids])
              ELSE SetCtl(CleanupStep(Ctl, 4))
  /\ UNCHANGED <<mem, ents, tags, aborted, opts, ms, cst>>

DeleteSingleUseTagsDone ==
  /\ pc = "deleteSingleUseTags"
  /\ \/ /\ StoreCallThrows
        /\ SetCtl(Catch(Ctl, 7))
        /\ UNCHANGED <<mem, tags>>
     \/ /\ StoreCallOk
        /\ LET r == DeleteTags(mem, tags, loc.ids)
           IN /\ mem' = r.mem
              /\ tags' = r.tags
              /\ SetCtl(CleanupStep(Wrote(Ctl, 7), 4))
  /\ UNCHANGED <<ents, aborted, opts, ms, cst>>

\* ------------------------------------------- runSleepCycle: noise cleanup (5)
\* for (const pattern of noisePatterns) { if (aborted) break; await delete }
\* loc.k counts the patterns already tried.
NoiseLoop(c, k) ==
  IF k >= NoisePatternCount \/ aborted THEN Leave(c, 8)
  ELSE [c EXCEPT !.pc = "deleteMemoriesByPattern", !.loc.k = k]

DeleteMemoriesByPatternDone ==
  /\ pc = "deleteMemoriesByPattern"
  /\ \/ /\ StoreCallThrows
        /\ SetCtl(Catch(Ctl, 8))
        /\ UNCHANGED mem
     \/ /\ StoreCallOk
        /\ mem' = DetachDelete(mem, DeleteMemoriesByPattern(mem, loc.k + 1, opts.agentId))
        /\ SetCtl(NoiseLoop(Wrote(Ctl, 8), loc.k + 1))
  /\ UNCHANGED <<ents, tags, aborted, opts, ms, cst>>

\* ---------------------------------------- runSleepCycle: credential scan (5b)
FetchAllMemoriesForScanDone ==
  /\ pc = "fetchAllMemoriesForScan"
  /\ \/ /\ StoreCallThrows
        /\ SetCtl(Catch(Ctl, 9))
     \/ /\ StoreCallOk
        /\ LET all == FetchAllMemoriesForScan(mem, opts.agentId)
               toRemove == IF aborted THEN {}
                           ELSE {m \in all : DetectCredential(mem[m].txt)}
           IN IF toRemove # {}
              THEN SetCtl([Ctl EXCEPT !.pc = "deleteMemoriesByIds", !.loc.ids = toRemove])
              ELSE SetCtl(Leave(Ctl, 9))
  /\ UNCHANGED <<mem, ents, tags, aborted, opts, ms, cst>>

DeleteMemoriesByIdsDone ==
  /\ pc = "deleteMemoriesByIds"
  /\ \/ /\ StoreCallThrows
        /\ SetCtl(Catch(Ctl, 9))
        /\ UNCHANGED mem
     \/ /\ StoreCallOk
        /\ mem' = DetachDelete(mem, loc.ids)
        /\ SetCtl(Leave(Wrote(Ctl, 9), 9))
  /\ UNCHANGED <<ents, tags, aborted, opts, ms, cst>>

\* ------------------------------------------- runSleepCycle: task ledger (6)
\* await reviewAndArchiveStaleTasks(workspaceDir, staleTaskMaxAgeMs): works
\* on TASKS.md, not on the store; it may throw.
ReviewAndArchiveStaleTasksDone ==
  /\ pc = "reviewAndArchiveStaleTasks"
  /\ \/ MayThrow /\ SetCtl(Catch(Ctl, 10))
     \/ SetCtl(Leave(Ctl, 10))
  /\ UNCHANGED <<mem, ents, tags, ready, aborted, opts, ms, cst>>

\* ----------------------------------------------------- memory_store (tool)
\* randomUUID(): an id no memory has or had; the initial stores leave the
\* last id unused.
NewId == MaxMem
ToolAgent == "a"

\* The calls followed: (embedding of the text, category, importance).
StoreInputs ==
  {[emb |-> 0, cat |-> "other", imp |-> ImpDefault, txt |-> "plain"],
   [emb |-> 80, cat |-> "core", imp |-> ImpDefault, txt |-> "plain"]}

MsIdle == [pc |-> "idle", input |-> [emb |-> 0, cat |-> "other", imp |-> 0, txt |-> "plain"],
           lookup |-> "none", cand |-> {}, out |-> "none", existing |-> 0]

\* The importance as it was passed, neither locked nor clamped.
StoredImportanceAsGiven(category, importance) == importance

\* Math.min(1, Math.max(0, importance)), core locked at 1.0
StoredImportance(category, importance) ==
  IF category = "core" THEN ImpCore ELSE Min2(100, Max2(0, importance))

\* execute(_toolCallId, params): `await embeddings.embed(text)` settles; on
\* an embedding `await db.findSimilar(vector, 0.95, 1, agentId)` is issued,
\* a rejection leaves execute.
MemoryStoreCall ==
  /\ ms.pc = "idle"
  /\ \E input \in StoreInputs :
       \/ ms' = [ms EXCEPT !.pc = "done", !.input = input, !.out = "raised"]
       \/ ms' = [ms EXCEPT !.pc = "findSimilar", !.input = input]
  /\ UNCHANGED <<mem, ents, tags, ready, aborted, opts, pc, loc, result, started, hist, cst>>

\* findSimilar: `await this.ensureInitialized()` stands before the try, so
\* its rejection leaves findSimilar; a failure of the query inside the try
\* (index not ready, retries exhausted) is caught and gives [].
FindSimilarDone ==
  /\ ms.pc = "findSimilar"
  /\ \/ /\ ~ready
        /\ ready' = FALSE
        /\ ms' = [ms EXCEPT !.pc = "done", !.lookup = "raised", !.out = "raised"]
     \/ /\ ready' = TRUE
        /\ ms' = [ms EXCEPT !.pc = "storeMemory", !.lookup = "caught"]
     \/ /\ ready' = TRUE
        /\ \E S \in NearestSets(mem, FindSimilarOverfetch, ms.input.emb) :
             LET rows == FindSimilarRows(mem, S, ms.input.emb, StoreDupThreshold, ToolAgent)
             IN IF rows # {}
                THEN \E m \in rows :
                       /\ \A x \in rows : Sim(mem[x].emb, ms.input.emb)
                                            <= Sim(mem[m].emb, ms.input.emb)
                       /\ ms' = [ms EXCEPT !.pc = "done", !.lookup = "ok", !.cand = S,
                                           !.out = "duplicate", !.existing = m]
                ELSE ms' = [ms EXCEPT !.pc = "storeMemory", !.lookup = "ok", !.cand = S]
  /\ UNCHANGED <<mem, ents, tags, aborted, opts, pc, loc, result, started, hist, cst>>

\* await db.storeMemory({...}); then the "created" answer.
StoreMemoryDone ==
  /\ ms.pc = "storeMemory"
  /\ \/ /\ UNCHANGED <<mem, ready>>
        /\ ms' = [ms EXCEPT !.pc = "done", !.out = "raised"]
     \/ /\ ready' = TRUE
        /\ mem' = StoreMemory(mem, NewId,
                    [cat |-> ms.input.cat,
                     imp |-> StoredImportance(ms.input.cat, ms.input.imp),
                     emb |-> ms.input.emb, txt |-> ms.input.txt, agent |-> ToolAgent,
                     st |-> IF opts.configEnabled THEN "pending" ELSE "skipped"])
        /\ ms' = [ms EXCEPT !.pc = "done", !.out = "created"]
  /\ UNCHANGED <<ents, tags, aborted, opts, pc, loc, result, started, hist, cst>>

\* --------------------------------------------- store client called directly
\* Calls a client operation may be followed for in ClientSpec.
MaxDeletes == 1

\* ALLOWED_RELATIONSHIP_TYPES and validateRelationshipType(type): exact
\* membership, so another case or a longer string is refused.
AllowedRelationshipTypes ==
  {"WORKS_AT", "LIVES_AT", "KNOWS", "MARRIED_TO", "PREFERS", "DECIDED", "RELATED_TO"}
ValidateAnyType(type) == TRUE
ValidateRelationshipType(type) == type \in AllowedRelationshipTypes

\* deleteMemory's statement: MATCH (m:Memory {id[, agentId]}), per MENTIONS
\* edge mentionCount - 1 when > 0 else 0, DETACH DELETE m, RETURN count(*).
DeleteMemoryUnscoped(M, E, id, agentId) ==
  IF M[id].cat # "none"
  THEN [mem |-> DetachDelete(M, {id}), ents |-> DecrementMentions(M, E, {id}),
        deleted |-> TRUE]
  ELSE [mem |-> M, ents |-> E, deleted |-> FALSE]
DeleteMemory(M, E, id, agentId) ==
  IF M[id].cat # "none" /\ (agentId = NoAgent \/ M[id].agent = agentId)
  THEN [mem |-> DetachDelete(M, {id}), ents |-> DecrementMentions(M, E, {id}),
        deleted |-> TRUE]
  ELSE [mem |-> M, ents |-> E, deleted |-> FALSE]

\* State of the direct calls: the mergeMemoryCluster call in flight (mpc is
\* the statement of its transaction that is awaited), what its delete
\* statement found missing and removed, the number of deleteMemory calls
\* that have settled and the last of them, and the relationship types asked
\* for and written.
CstIdle == [mpc |-> "idle", ids |-> <<>>, imps |-> <<>>, sv |-> 0, deletedCount |-> -1,
            missing |-> {}, removed |-> {}, dn |-> 0, del |-> [out |-> "none"],
            asked |-> {}, rels |-> {}]

\* ------------------------------------------------------------ initial states
Mk(cat, imp, emb, txt, agent, age, st, es, ts) ==
  [cat |-> cat, imp |-> imp, emb |-> emb, txt |-> txt, agent |-> agent, age |-> age,
   lra |-> -1, rc |-> 0, st |-> st, ents |-> es, tags |-> ts]

HistInit == [abortAt |-> -1, dw |-> {}, wrote |-> {}, startAb |-> {}, called |-> {},
             callAb |-> {}, threw |-> {}, inv |-> {}]

\* The option sets followed: the defaults; an agent-scoped run with
\* extraction disabled, no workspace, retention threshold 1.0 and a one-day
\* curve for core, on a client whose start-up initialisation failed; a run
\* with --skip-semantic.
OptionProfiles ==
  {[agentId |-> NoAgent, skipSemanticDedup |-> FALSE, configEnabled |-> TRUE,
    workspaceDir |-> TRUE, decayThreshold |-> DecayThresholdDefault,
    halfLife |-> BaseHalfLifeDays, mult |-> ImportanceMultiplier,
    curveCat |-> "none", curveHalfLife |-> BaseHalfLifeDays],
   [agentId |-> "a", skipSemanticDedup |-> FALSE, configEnabled |-> FALSE,
    workspaceDir |-> FALSE, decayThreshold |-> 10000,
    halfLife |-> BaseHalfLifeDays, mult |-> ImportanceMultiplier,
    curveCat |-> "core", curveHalfLife |-> 1],
   [agentId |-> NoAgent, skipSemanticDedup |-> TRUE, configEnabled |-> TRUE,
    workspaceDir |-> FALSE, decayThreshold |-> DecayThresholdDefault,
    halfLife |-> BaseHalfLifeDays, mult |-> ImportanceMultiplier,
    curveCat |-> "none", curveHalfLife |-> BaseHalfLifeDays]}

\* Categories and importances as the tools create them: core is stored
\* with importance 1.0.
FirstKinds == {<<"fact", ImpDefault>>, <<"core", ImpCore>>}
SecondKinds == {<<"other", ImpDefault>>, <<"core", ImpCore>>}

\* The third memory varies with the first two, so that every kind of third
\* memory meets a vector-merge store and a semantic-dedup store.
ThirdKind(k1, k2, e2) ==
  IF e2 = 3 THEN (IF k1[1] = "core" THEN <<"noise", "a">> ELSE
                  IF k2[1] = "core" THEN <<"cred", "a">> ELSE <<"plain", "b">>)
  ELSE (IF k1[1] = "core" /\ k2[1] = "core" THEN <<"plain", "a">> ELSE
        IF k1[1] = "core" THEN <<"cred", "a">> ELSE
        IF k2[1] = "core" THEN <<"plain", "b">> ELSE <<"noise", "a">>)

SleepStores ==
  {[m \in MemIds |->
      IF m = 1 THEN Mk(k1[1], k1[2], 0, "plain", "a", 10, "complete", {"e1"}, {"t1"})
      ELSE IF m = 2 THEN Mk(k2[1], k2[2], e2, "plain", "a", 10, "pending", {"e1"}, {})
      ELSE IF m = 3 THEN Mk("other", 20, 50, ThirdKind(k1, k2, e2)[1],
                            ThirdKind(k1, k2, e2)[2], 200, "complete", {}, {})
      ELSE NoMem] :
     k1 \in FirstKinds, k2 \in SecondKinds, e2 \in {3, 10}}

CtlInit ==
  /\ aborted = FALSE
  /\ pc = "idle"
  /\ loc = LocInit
  /\ result = [aborted |-> FALSE, returned |-> FALSE, pruned |-> 0, resolved |-> 0]
  /\ started = <<>>
  /\ hist = HistInit
  /\ ms = MsIdle
  /\ cst = CstIdle

Init ==
  /\ mem \in SleepStores
  /\ ents = [e \in EntIds |-> IF e = "e1" THEN [node |-> TRUE, mc |-> IF mem[3].agent = "b" THEN -1 ELSE 2]
                              ELSE [node |-> TRUE, mc |-> 0]]
  /\ tags = [t \in TagIds |-> "old"]
  /\ opts \in OptionProfiles
  /\ ready = (opts.agentId = NoAgent)
  /\ CtlInit

Next ==
  \/ StartSleepCycle
  \/ Abort
  \/ FindDuplicateClustersDone
  \/ MergeMemoryClusterDone
  \/ IsSemanticDuplicateDone
  \/ SemInvalidateMemoryDone
  \/ FindConflictingMemoriesDone
  \/ ResolveConflictDone
  \/ ConflictInvalidateMemoryDone
  \/ ReconcileEntityMentionCountsDone
  \/ FindDuplicateEntityPairsDone
  \/ MergeEntityPairDone
  \/ CountByExtractionStatusDone
  \/ ListPendingExtractionsDone
  \/ RunBackgroundExtractionDone
  \/ ExtractionDelayDone
  \/ FindDecayedMemoriesDone
  \/ PruneMemoriesDone
  \/ FindOrphanEntitiesDone
  \/ DeleteOrphanEntitiesDone
  \/ FindOrphanTagsDone
  \/ DeleteOrphanTagsDone
  \/ FindSingleUseTagsDone
  \/ DeleteSingleUseTagsDone
  \/ DeleteMemoriesByPatternDone
  \/ FetchAllMemoriesForScanDone
  \/ DeleteMemoriesByIdsDone
  \/ ReviewAndArchiveStaleTasksDone
  \/ MemoryStoreCall
  \/ FindSimilarDone
  \/ StoreMemoryDone

Spec == Init /\ [][Next]_vars

\* runSleepCycle over a store whose core memory carries a credential.
ScanInit ==
  /\ mem = [m \in MemIds |->
             IF m = 1 THEN Mk("fact", ImpDefault, 0, "plain", "a", 10, "complete", {"e1"}, {"t1"})
             ELSE IF m = 2 THEN Mk("other", ImpDefault, 10, "plain", "a", 10, "pending", {"e1"}, {})
             ELSE IF m = 3 THEN Mk("core", ImpCore, 50, "cred", "a", 200, "complete", {}, {})
             ELSE NoMem]
  /\ ents = [e \in EntIds |-> IF e = "e1" THEN [node |-> TRUE, mc |-> 2]
                              ELSE [node |-> TRUE, mc |-> 0]]
  /\ tags = [t \in TagIds |-> "old"]
  /\ opts \in OptionProfiles
  /\ ready = (opts.agentId = NoAgent)
  /\ CtlInit

ScanSpec == ScanInit /\ [][Next]_vars

\* runSleepCycle over stores with one cluster of three memories: all pairs
\* of medium similarity (0.90, 0.80, 0.90), or one pair of high similarity
\* (0.97) with a third memory of medium similarity to both (0.80, 0.83).
ClusterInit ==
  /\ \E e2 \in {3, 10} :
       mem = [m \in MemIds |->
                IF m = 1 THEN Mk("fact", ImpDefault, 0, "plain", "a", 10, "complete", {"e1"}, {"t1"})
                ELSE IF m = 2 THEN Mk("other", 50, e2, "plain", "a", 10, "pending",
                                      IF e2 = 10 THEN {"e1"} ELSE {}, {})
                ELSE IF m = 3 THEN Mk("other", 60, 20, "cred", "a", 10, "complete", {"e2"}, {})
                ELSE NoMem]
  /\ ents = [e \in EntIds |-> [node |-> TRUE, mc |-> Cardinality(MentionsOf(mem, e))]]
  /\ tags = [t \in TagIds |-> "old"]
  /\ opts \in OptionProfiles
  /\ ready = (opts.agentId = NoAgent)
  /\ CtlInit

ClusterSpec == ClusterInit /\ [][Next]_vars

\* -------------------------------------------- memory_store followed alone
StoreKinds == {<<"other", 50>>, <<"core", ImpCore>>}

\* Stores for the duplicate check: at most one memory of the calling agent,
\* at distance 0, 5 or 6 of the first input, and up to three memories of
\* another agent at one distance.
StoreStores ==
  {[m \in MemIds |->
      IF m = 1 /\ own[1] THEN Mk(own[3][1], own[3][2], own[2], "plain", "a", 5, "complete", {}, {})
      ELSE IF m \in 2..(1 + nb) THEN Mk("other", 50, eb, "plain", "b", 5, "complete", {}, {})
      ELSE NoMem] :
     own \in ({<<FALSE, 0, <<"other", 50>>>>} \cup ({TRUE} \X {0, 5, 6} \X StoreKinds)),
     nb \in 0..3, eb \in {0, 10}}

StoreInit ==
  /\ mem \in StoreStores
  /\ ents = [e \in EntIds |-> NoEnt]
  /\ tags = [t \in TagIds |-> "none"]
  /\ ready \in BOOLEAN
  /\ opts \in {o \in OptionProfiles : o.agentId = NoAgent /\ ~o.skipSemanticDedup}
  /\ CtlInit

StoreNext ==
  \/ MemoryStoreCall
  \/ FindSimilarDone
  \/ StoreMemoryDone

StoreSpec == StoreInit /\ [][StoreNext]_vars

\* ------------------------------------------ client operations followed alone
\* mergeMemoryCluster(memoryIds, importances).  The transaction runs its
\* statements one await at a time: the verification is a read, and another
\* session's committed write is visible to the statements after it.  The
\* two transfer statements (MENTIONS, TAGGED) are taken as one step.
MergeMemoryClusterStep ==
  LET all == {cst.ids[i] : i \in 1..Len(cst.ids)}
      dead == all \ {cst.sv}
      gone == {m \in all : mem[m].cat = "none"}
  IN
  /\ \/ /\ cst.mpc = "idle"
        /\ \E ids \in {<<1, 2>>, <<2, 1>>, <<1, 2, 3>>, <<1, 2, 4>>} :
             \E imps \in [1..Len(ids) -> {30, 70}] :
               cst' = [cst EXCEPT !.mpc = "verify", !.ids = ids, !.imps = imps,
                                  !.sv = ids[SurvivorIdx(imps)]]
        /\ mem' = mem
     \/ /\ cst.mpc = "verify"
        /\ cst' = IF gone # {}
                  THEN [cst EXCEPT !.mpc = "done", !.deletedCount = 0, !.missing = gone]
                  ELSE [cst EXCEPT !.mpc = "transfer"]
        /\ mem' = mem
     \/ /\ cst.mpc = "transfer"
        /\ cst' = [cst EXCEPT !.mpc = "delete"]
        /\ mem' = IF mem[cst.sv].cat = "none" THEN mem
                  ELSE [m \in MemIds |->
                          IF m = cst.sv
                          THEN [mem[m] EXCEPT
                                  !.ents = @ \cup UNION {mem[d].ents : d \in dead \ gone},
                                  !.tags = @ \cup UNION {mem[d].tags : d \in dead \ gone}]
                          ELSE IF m \in dead \ gone
                               THEN [mem[m] EXCEPT !.ents = {}, !.tags = {}]
                               ELSE mem[m]]
     \/ /\ cst.mpc = "delete"
        /\ cst' = [cst EXCEPT !.mpc = "done", !.deletedCount = Len(cst.ids) - 1,
                              !.missing = gone, !.removed = dead \ gone]
        /\ mem' = DetachDelete(mem, dead)
  /\ ready' = TRUE
  /\ UNCHANGED <<ents, tags, aborted, opts, pc, loc, result, started, hist, ms>>

\* deleteMemory(id, agentId): ensureInitialized, then the UUID test, then
\* the one delete statement.  `uuid` says whether the id string is
\* UUID-shaped; `touched` records that a connection or a query was issued;
\* `tool` that memory_forget made the call, with `ctx.agentId || "default"`
\* as the agent.  An id that is not UUID-shaped names no memory; its `id`
\* field is a placeholder.
DeleteMemoryCall ==
  /\ cst.dn < MaxDeletes
  /\ \E id \in 1..3, uuid \in BOOLEAN, agentId \in Agents \cup {NoAgent} :
     \E tool \in {t \in BOOLEAN : (t => agentId # NoAgent) /\ (~uuid => id = 1)} :
       LET call == [id |-> id, uuid |-> uuid, agentId |-> agentId, tool |-> tool]
           r == DeleteMemory(mem, ents, id, agentId)
       IN \/ /\ ~ready
             /\ UNCHANGED <<mem, ents, ready>>
             /\ cst' = [cst EXCEPT !.dn = @ + 1,
                          !.del = call @@ [out |-> "initError", touched |-> TRUE]]
          \/ /\ ~uuid
             /\ ready' = TRUE
             /\ UNCHANGED <<mem, ents>>
             /\ cst' = [cst EXCEPT !.dn = @ + 1,
                          !.del = call @@ [out |-> "invalid", touched |-> ~ready]]
          \/ /\ uuid
             /\ ready' = TRUE
             /\ mem' = r.mem
             /\ ents' = r.ents
             /\ cst' = [cst EXCEPT !.dn = @ + 1,
                          !.del = call @@ [out |-> IF r.deleted THEN "deleted" ELSE "notFound",
                                           touched |-> TRUE]]
  /\ UNCHANGED <<tags, aborted, opts, pc, loc, result, started, hist, ms>>

\* batchEntityOperations(memoryId, entities, relationships, tags): the
\* relationships are filtered by validateRelationshipType and each kept type
\* is interpolated into its MERGE statement, which writes when both
\* entities exist.
BatchEntityOperationsCall ==
  /\ cst.asked = {}
  /\ \E id \in {1, 4}, es \in {{"e1"}, {"e1", "e2"}},
        types \in {{"KNOWS"}, {"knows", "HATES"}, {"RELATED_TO", "KNOWS]->() DETACH DELETE"}} :
       LET r == BatchEntityOperations(mem, ents, tags, id, es, {}, "none")
           valid == {t \in types : ValidateRelationshipType(t)}
       IN /\ mem' = r.mem
          /\ ents' = r.ents
          /\ cst' = [cst EXCEPT !.asked = types,
                                !.rels = IF \A e \in EntIds : r.ents[e].node
                                         THEN @ \cup valid ELSE @]
  /\ ready' = TRUE
  /\ UNCHANGED <<tags, aborted, opts, pc, loc, result, started, hist, ms>>

\* A store of three memories whose entities carry the count of their
\* MENTIONS edges; the client may or may not be initialised yet.
ClientInit ==
  /\ \E a2 \in Agents, es2 \in {{}, {"e1"}, {"e2"}} :
       mem = [m \in MemIds |->
                IF m = 1 THEN Mk("other", 70, 0, "plain", "a", 5, "complete", {"e1"}, {"t1"})
                ELSE IF m = 2 THEN Mk("other", 50, 0, "plain", a2, 5, "complete", es2, {})
                ELSE IF m = 3 THEN Mk("core", ImpCore, 2, "plain", "b", 5, "complete", {}, {})
                ELSE NoMem]
  /\ ents = [e \in EntIds |-> IF MentionsOf(mem, e) = {} THEN NoEnt
                              ELSE [node |-> TRUE, mc |-> Cardinality(MentionsOf(mem, e))]]
  /\ tags = [t \in TagIds |-> "old"]
  /\ ready \in BOOLEAN
  /\ opts \in {o \in OptionProfiles : o.agentId = NoAgent /\ ~o.skipSemanticDedup}
  /\ CtlInit

ClientNext ==
  \/ MergeMemoryClusterStep
  \/ DeleteMemoryCall
  \/ BatchEntityOperationsCall

ClientSpec == ClientInit /\ [][ClientNext]_vars

\* ------------------------------------- client lifecycle and retry followed
MaxEnsureCalls == 3
TransientRetryAttempts == 3
TransientRetryBaseDelayMs == 500

\* const delay = baseDelay * Math.pow(2, attempt)
RetryDelayFlat(attempt) == TransientRetryBaseDelayMs
RetryDelay(attempt) == TransientRetryBaseDelayMs * 2^attempt

\* The client's fields (driver set or null, indexesReady, initPromise: 0 for
\* null, else the doInitialize run whose promise it holds), the doInitialize
\* runs started so far with the number of close() calls completed before
\* each, one retryOnTransient call and one hybridSearch call.
LifecycleIdle ==
  [driver |-> FALSE, indexesReady |-> FALSE, initPromise |-> 0, runs |-> <<>>,
   closes |-> 0, closing |-> FALSE, n |-> 0,
   rt |-> [attempt |-> 0, calls |-> 0, waits |-> <<>>, errs |-> <<>>, out |-> "none",
           thrown |-> 0],
   hs |-> [pc |-> "idle", query |-> <<>>, embedded |-> FALSE, stored |-> FALSE,
           graphEnabled |-> FALSE, run |-> 0, signals |-> <<>>, out |-> "none"]]

\* ensureInitialized(): return when driver && indexesReady, else return the
\* pending initPromise, else start doInitialize, whose first statement sets
\* this.driver, and keep its promise.  Yields the new fields.
EnsureInitialized(c) ==
  IF (c.driver /\ c.indexesReady) \/ c.initPromise # 0 THEN c
  ELSE [c EXCEPT !.driver = TRUE, !.initPromise = Len(c.runs) + 1,
                 !.runs = Append(@, [st |-> "running", closes |-> c.closes])]

EnsureInitializedCall ==
  /\ cst.n < MaxEnsureCalls
  /\ cst' = [EnsureInitialized(cst) EXCEPT !.n = @ + 1]
  /\ ready' = (cst'.driver /\ cst'.indexesReady)
  /\ UNCHANGED <<mem, ents, tags, aborted, opts, pc, loc, result, started, hist, ms>>

\* doInitialize settles: after the connection check and ensureIndexes it
\* sets indexesReady; on a rejection the catch handler of ensureInitialized
\* sets this.initPromise = null.
DoInitializeSettles ==
  /\ \E r \in 1..Len(cst.runs) :
       /\ cst.runs[r].st = "running"
       /\ \/ cst' = [cst EXCEPT !.runs[r].st = "ok", !.indexesReady = TRUE]
          \/ cst' = [cst EXCEPT !.runs[r].st = "failed", !.initPromise = 0]
  /\ ready' = (cst'.driver /\ cst'.indexesReady)
  /\ UNCHANGED <<mem, ents, tags, aborted, opts, pc, loc, result, started, hist, ms>>

\* close(): with a driver, await driver.close(), then null the driver, the
\* flag and the promise.
CloseStep ==
  /\ \/ /\ ~cst.closing /\ cst.driver /\ cst.closes = 0
        /\ cst' = [cst EXCEPT !.closing = TRUE]
     \/ /\ cst.closing
        /\ cst' = [cst EXCEPT !.closing = FALSE, !.driver = FALSE, !.indexesReady = FALSE,
                              !.initPromise = 0, !.closes = @ + 1]
  /\ ready' = (cst'.driver /\ cst'.indexesReady)
  /\ UNCHANGED <<mem, ents, tags, aborted, opts, pc, loc, result, started, hist, ms>>

\* retryOnTransient(fn): one pass of the loop body: fn() is invoked and
\* settles; a rejection is classified, rethrown when it is not transient
\* or the attempt is the last, and otherwise followed by the delay.  The
\* throw after the loop is not reached: the last pass returns or throws.
RetryOnTransientStep ==
  LET rt == cst.rt
  IN
  /\ rt.out = "none"
  /\ rt.attempt < TransientRetryAttempts
  /\ \/ cst' = [cst EXCEPT !.rt.calls = @ + 1, !.rt.out = "ok"]
     \/ \E kind \in {"transient", "permanent"} :
          LET err == [kind |-> kind, of |-> rt.calls + 1]
          IN IF kind # "transient" \/ rt.attempt >= TransientRetryAttempts - 1
             THEN cst' = [cst EXCEPT !.rt.calls = @ + 1, !.rt.errs = Append(@, err),
                                     !.rt.out = "thrown", !.rt.thrown = err]
             ELSE cst' = [cst EXCEPT !.rt.calls = @ + 1, !.rt.errs = Append(@, err),
                                     !.rt.waits = Append(@, RetryDelay(rt.attempt)),
                                     !.rt.attempt = @ + 1]
  /\ UNCHANGED <<mem, ents, tags, ready, aborted, opts, pc, loc, result, started, hist, ms>>

\* Only the empty string counts as blank.
BlankQueryEmptyOnly(query) == query = <<>>

\* !query.trim(): the query, a sequence of characters, is empty or all
\* white space.
BlankQuery(query) == \A i \in 1..Len(query) : query[i] \in {" ", "\t", "\n"}

\* hybridSearch: a blank query returns [] at once.  Otherwise, after the
\* embedding, vectorSearch, bm25Search and, with graphEnabled, graphSearch
\* are started together; each awaits ensureInitialized before its try
\* block, so they share the pending initialisation and a rejection of it
\* leaves all of them; inside the try a failed query, retries exhausted
\* included, gives [].  Promise.all rejects when a signal rejects.
HybridSearchStep ==
  /\ \/ /\ cst.hs.pc = "idle"
        /\ \E query \in {<<>>, <<" ">>, <<"\t", " ">>, <<"q">>, <<" ", "q">>} :
             IF BlankQuery(query)
             THEN cst' = [cst EXCEPT !.hs.pc = "done", !.hs.out = "empty", !.hs.query = query]
             ELSE \E graphEnabled \in BOOLEAN :
                    LET c == EnsureInitialized(cst)
                    IN cst' = [c EXCEPT !.hs.pc = "signals", !.hs.query = query,
                                        !.hs.embedded = TRUE, !.hs.stored = TRUE,
                                        !.hs.graphEnabled = graphEnabled,
                                        !.hs.run = IF c.driver /\ c.indexesReady THEN 0
                                                   ELSE c.initPromise]
     \/ /\ cst.hs.pc = "signals"
        /\ IF cst.hs.run # 0 /\ cst.runs[cst.hs.run].st = "failed"
           THEN cst' = [cst EXCEPT !.hs.pc = "done", !.hs.out = "raised",
                          !.hs.signals = <<"raised", "raised",
                                           IF cst.hs.graphEnabled THEN "raised" ELSE "empty">>]
           ELSE /\ cst.hs.run # 0 => cst.runs[cst.hs.run].st = "ok"
                /\ \E sig \in [1..3 -> {"rows", "empty"}] :
                     /\ ~cst.hs.graphEnabled => sig[3] = "empty"
                     /\ cst' = [cst EXCEPT !.hs.pc = "done", !.hs.out = "fused",
                                           !.hs.signals = sig]
  /\ ready' = (cst'.driver /\ cst'.indexesReady)
  /\ UNCHANGED <<mem, ents, tags, aborted, opts, pc, loc, result, started, hist, ms>>

\* A client just constructed, over an empty store.
LifecycleInit ==
  /\ mem = [m \in MemIds |-> NoMem]
  /\ ents = [e \in EntIds |-> NoEnt]
  /\ tags = [t \in TagIds |-> "none"]
  /\ ready = FALSE
  /\ aborted = FALSE
  /\ opts \in {o \in OptionProfiles : o.agentId = NoAgent /\ ~o.skipSemanticDedup}
  /\ pc = "idle"
  /\ loc = LocInit
  /\ result = [aborted |-> FALSE, returned |-> FALSE, pruned |-> 0, resolved |-> 0]
  /\ started = <<>>
  /\ hist = HistInit
  /\ ms = MsIdle
  /\ cst = LifecycleIdle

LifecycleNext ==
  \/ EnsureInitializedCall
  \/ DoInitializeSettles
  \/ CloseStep
  \/ RetryOnTransientStep
  \/ HybridSearchStep

LifecycleSpec == LifecycleInit /\ [][LifecycleNext]_vars

\* ----------------------------------------- tools and pure functions, one call
MaxWords == 5
MaxRecords == 3
ForgetLimit == 5
ForgetMinScore == 70
ForgetAutoDelete == 95
Bm25Floor == 300
Bm25Moderate == 500

\* The word classes classifyQuery tells apart: a question word and an
\* auxiliary in lower case and capitalised (both capitalised forms are in
\* commonWords), a plain lower-case word and a proper noun.
QueryWords == {"who", "What", "is", "Was", "cat", "John"}

\* The length tests first, the entity test after them.
ClassifyQueryLengthFirst(q) ==
  LET n == Len(q.words)
      capitalizedWords == {i \in 1..n : /\ q.words[i] \in {"What", "Was", "John"}
                                        /\ q.words[i] \notin {"What", "Was"}}
  IN IF n <= 2 THEN "short"
     ELSE IF n >= 5 THEN "long"
     ELSE IF capitalizedWords # {} THEN "entity"
     ELSE IF ~q.lead /\ q.words[1] \in {"who", "What"} /\ q.words[2] \in {"is", "Was"}
     THEN "entity" ELSE "default"

\* classifyQuery(query), the query given as its words and whether white
\* space leads it.  capitalizedWords: /^[A-Z]/ and not commonWords.  The
\* question pattern /^(who|where|what)\s+(is|does|did|was|were)\s/i is
\* tested on the query as passed, so leading white space defeats its anchor.
ClassifyQuery(q) ==
  LET n == Len(q.words)
      capitalizedWords == {i \in 1..n : /\ q.words[i] \in {"What", "Was", "John"}
                                        /\ q.words[i] \notin {"What", "Was"}}
      questionPattern == /\ ~q.lead /\ n >= 3
                         /\ q.words[1] \in {"who", "What"}
                         /\ q.words[2] \in {"is", "Was"}
  IN IF capitalizedWords # {} THEN "entity"
     ELSE IF n <= 2 THEN "short"
     ELSE IF n <= 4 /\ questionPattern THEN "entity"
     ELSE IF n >= 5 THEN "long"
     ELSE "default"

\* Every score divided by the best one, no floor.
Bm25ScoresByMax(raw) == [i \in 1..Len(raw) |-> (1000 * raw[i]) \div raw[1]]

\* The normalisation of bm25Search, scores in thousandths: raw is the
\* rawScore column in the order of the rows (ORDER BY score DESC).
Bm25Scores(raw) ==
  LET maxScore == raw[1]
      minScore == raw[Len(raw)]
      range == maxScore - minScore
  IN [i \in 1..Len(raw) |->
        IF range > 0
        THEN Bm25Floor + ((1000 - Bm25Floor) * (raw[i] - minScore)) \div range
        ELSE Bm25Moderate]

\* Row lists of the full-text query: raw scores in descending order.
Bm25Rows ==
  {r \in UNION {[1..n -> {2, 5, 10}] : n \in 0..MaxRecords} :
     \A i \in 1..(Len(r) - 1) : r[i] >= r[i + 1]}

ClassifyQueryCall ==
  /\ cst.op = "idle"
  /\ \E n \in 1..MaxWords : \E words \in [1..n -> QueryWords], lead \in BOOLEAN :
       LET q == [words |-> words, lead |-> lead]
       IN cst' = [op |-> "classifyQuery", q |-> q, type |-> ClassifyQuery(q)]
  /\ UNCHANGED <<mem, ents, tags, ready, aborted, opts, pc, loc, result, started, hist, ms>>

\* bm25Search with a query that is not empty: the rows, then the scores.
Bm25SearchCall ==
  /\ cst.op = "idle"
  /\ \E raw \in Bm25Rows :
       cst' = [op |-> "bm25Search", raw |-> raw,
               scores |-> IF raw = <<>> THEN <<>> ELSE Bm25Scores(raw)]
  /\ UNCHANGED <<mem, ents, tags, ready, aborted, opts, pc, loc, result, started, hist, ms>>

\* memory_store execute: the defaults of the destructuring (importance =
\* 0.7, category = "other") and the importance handed to storeMemory.
MemoryStoreParams ==
  /\ cst.op = "idle"
  /\ \E hasImportance \in BOOLEAN, importance \in {-50, 0, 30, 100, 150},
        category \in {"unset", "other", "fact", "core"} :
       LET imp == IF hasImportance THEN importance ELSE ImpDefault
           cat == IF category = "unset" THEN "other" ELSE category
       IN /\ ~hasImportance => importance = 0
          /\ cst' = [op |-> "memory_store", hasImportance |-> hasImportance,
                     importance |-> importance, category |-> category,
                     stored |-> [cat |-> cat, imp |-> StoredImportance(cat, imp)]]
  /\ UNCHANGED <<mem, ents, tags, ready, aborted, opts, pc, loc, result, started, hist, ms>>

\* memory_forget execute with a query: after the embedding,
\* db.vectorSearch(vector, 5, 0.7, agentId) answers; no row: "found: 0"; one
\* row with score > 0.95: await db.deleteMemory(id, agentId), then
\* "deleted"; else the candidates.
MemoryForgetCall ==
  \/ /\ cst.op = "idle"
     /\ \E emb \in {0, 4, 5, 6, 40} : \E S \in NearestSets(mem, ForgetLimit, emb) :
          LET rows == {m \in S : /\ Sim(mem[m].emb, emb) >= ForgetMinScore
                                 /\ mem[m].agent = ToolAgent}
              call == [op |-> "memory_forget", emb |-> emb, rows |-> rows, before |-> mem]
          IN IF rows = {}
             THEN cst' = call @@ [fpc |-> "done", out |-> "found0", id |-> 0]
             ELSE IF Cardinality(rows) = 1
                     /\ \A m \in rows : Sim(mem[m].emb, emb) > ForgetAutoDelete
             THEN cst' = call @@ [fpc |-> "deleteMemory", out |-> "none",
                                  id |-> CHOOSE m \in rows : TRUE]
             ELSE cst' = call @@ [fpc |-> "done", out |-> "candidates", id |-> 0]
     /\ UNCHANGED <<mem, ents>>
  \/ /\ cst.op = "memory_forget" /\ cst.fpc = "deleteMemory"
     /\ LET r == DeleteMemory(mem, ents, cst.id, ToolAgent)
        IN /\ mem' = r.mem
           /\ ents' = r.ents
           /\ cst' = [cst EXCEPT !.fpc = "done", !.out = "deleted"]
  /\ UNCHANGED <<tags, ready, aborted, opts, pc, loc, result, started, hist, ms>>

\* Stores for memory_forget: a memory of the calling agent at embedding 0,
\* with or without a second one close to it, and a memory of another agent.
ToolInit ==
  /\ \E second \in {"none", "a", "b"} :
       mem = [m \in MemIds |->
                IF m = 1 THEN Mk("fact", ImpDefault, 0, "plain", "a", 5, "complete", {"e1"}, {})
                ELSE IF m = 2 /\ second # "none"
                THEN Mk("other", 50, 2, "plain", second, 5, "complete", {}, {})
                ELSE NoMem]
  /\ ents = [e \in EntIds |-> IF MentionsOf(mem, e) = {} THEN NoEnt
                              ELSE [node |-> TRUE, mc |-> Cardinality(MentionsOf(mem, e))]]
  /\ tags = [t \in TagIds |-> "none"]
  /\ ready = TRUE
  /\ aborted = FALSE
  /\ opts \in {o \in OptionProfiles : o.agentId = NoAgent /\ ~o.skipSemanticDedup}
  /\ pc = "idle"
  /\ loc = LocInit
  /\ result = [aborted |-> FALSE, returned |-> FALSE, pruned |-> 0, resolved |-> 0]
  /\ started = <<>>
  /\ hist = HistInit
  /\ ms = MsIdle
  /\ cst = [op |-> "idle"]

ToolNext ==
  \/ ClassifyQueryCall
  \/ Bm25SearchCall
  \/ MemoryStoreParams
  \/ MemoryForgetCall

ToolSpec == ToolInit /\ [][ToolNext]_vars

\* ============================================ plugin hooks (index.ts register)
\* The per-session bookkeeping of the plugin and its auto sleep cycle, each
\* followed on its own.  For the sessions `cst` holds: now (the last value
\* Date.now() gave), the four session maps (a map is kept as the set of its
\* keys; sessionLastSeen with its times, -1 for no entry), lastTtlSweep, boot
\* (where the agent_bootstrap of a session stands) and, as bookkeeping of the
\* development, injected (injections of a session since its last reset or
\* eviction), reset (sessions reset with no agent_bootstrap begun since),
\* evicted (sessions the sweep removed), skipped (sessions for which an
\* agent_bootstrap returned at the test since their last reset) and jumps.  For the auto sleep cycle
\* it holds: now, lastSleepCycleAt, sleepCycleRunning and, as bookkeeping,
\* runs (auto runs in flight), returnedAt (when the last auto run resolved,
\* -1 for never), threw (an auto run rejected) and jumps.
Sessions == {"s1", "s2"}
MaxJumps == 3
MaxSleepJumps == 4
SessionTtlMs == 86400000
TtlSweepMs == 300000
AutoIntervalMs == 21600000

\* What the clock can have advanced by when a handler reads Date.now().
Elapsed == {0, 1, TtlSweepMs - 1, SessionTtlMs}
SleepElapsed == {0, 1, AutoIntervalMs - 1}
Clock(c, dt) == [c EXCEPT !.now = @ + dt, !.jumps = IF dt > 0 THEN @ + 1 ELSE @]
ClockCanAdvance(dt) == dt = 0 \/ cst.jumps < MaxJumps
SleepClockCanAdvance(dt) == dt = 0 \/ cst.jumps < MaxSleepJumps

\* Reference variant: a sweep on every call.
PruneStaleSessionEntriesUnthrottled(c) ==
  LET stale == {s \in Sessions : c.lastSeen[s] >= 0 /\ c.lastSeen[s] < c.now - SessionTtlMs}
  IN [c EXCEPT !.lastTtlSweep = c.now,
               !.bootstrapped = @ \ stale, !.refreshAt = @ \ stale, !.coreIds = @ \ stale,
               !.lastSeen = [s \in Sessions |-> IF s \in stale THEN -1 ELSE @[s]],
               !.injected = [s \in Sessions |-> IF s \in stale THEN 0 ELSE @[s]],
               !.evicted = @ \cup stale]

\* pruneStaleSessionEntries(): nothing within 5 minutes of the last sweep;
\* else every key of sessionLastSeen with ts < now - SESSION_TTL_MS leaves
\* the four maps.
PruneStaleSessionEntries(c) ==
  IF c.now - c.lastTtlSweep < TtlSweepMs THEN c
  ELSE LET stale == {s \in Sessions : c.lastSeen[s] >= 0 /\ c.lastSeen[s] < c.now - SessionTtlMs}
       IN [c EXCEPT !.lastTtlSweep = c.now,
                    !.bootstrapped = @ \ stale, !.refreshAt = @ \ stale, !.coreIds = @ \ stale,
                    !.lastSeen = [s \in Sessions |-> IF s \in stale THEN -1 ELSE @[s]],
                    !.injected = [s \in Sessions |-> IF s \in stale THEN 0 ELSE @[s]],
                    !.evicted = @ \cup stale]

\* touchSession(sessionKey)
TouchSession(c, s) == PruneStaleSessionEntries([c EXCEPT !.lastSeen[s] = c.now])

HookFrame == UNCHANGED <<mem, ents, tags, ready, aborted, opts, pc, loc, result, started, hist, ms>>

\* session_end (key = sessionKey ?? sessionId) and after_compaction: the
\* session leaves the four maps.
SessionReset ==
  /\ \E s \in Sessions, dt \in Elapsed :
       /\ ClockCanAdvance(dt)
       /\ cst' = [Clock(cst, dt) EXCEPT !.bootstrapped = @ \ {s}, !.refreshAt = @ \ {s},
                                        !.coreIds = @ \ {s}, !.lastSeen[s] = -1,
                                        !.injected[s] = 0, !.reset = @ \cup {s},
                                        !.skipped = @ \ {s}]
  /\ HookFrame

\* before_agent_start, mid-session refresh: after listCoreForInjection gave
\* core memories, midSessionRefreshAt.set(sessionKey, tokens) and
\* touchSession.  The part before the await changes nothing.
CoreRefreshDone ==
  /\ \E s \in Sessions, dt \in Elapsed :
       /\ ClockCanAdvance(dt)
       /\ cst' = TouchSession([Clock(cst, dt) EXCEPT !.refreshAt = @ \cup {s}], s)
  /\ HookFrame

\* Reference variant: agent_bootstrap without the test of bootstrappedSessions.
AgentBootstrapAlways ==
  /\ \E s \in Sessions, dt \in Elapsed :
       /\ ClockCanAdvance(dt)
       /\ \/ /\ cst.boot[s] = "idle"
             /\ cst' = [Clock(cst, dt) EXCEPT !.reset = @ \ {s}, !.boot[s] = "awaiting"]
          \/ /\ cst.boot[s] = "awaiting"
             /\ cst' = TouchSession([Clock(cst, dt) EXCEPT
                         !.boot[s] = "idle", !.bootstrapped = @ \cup {s},
                         !.coreIds = @ \cup {s}, !.injected[s] = Min2(@ + 1, 2)], s)
  /\ HookFrame

\* agent_bootstrap for a session with a key: return when the session is in
\* bootstrappedSessions, else await db.listCoreForInjection(agentId); then
\* no core memory: mark and touch; core memories: inject, mark, remember the
\* ids, touch; a throw: logged, nothing marked.
AgentBootstrap ==
  /\ \E s \in Sessions, dt \in Elapsed :
       /\ ClockCanAdvance(dt)
       /\ \/ /\ cst.boot[s] = "idle"
             /\ cst' = [Clock(cst, dt) EXCEPT
                         !.reset = @ \ {s},
                         !.skipped = IF s \in cst.bootstrapped THEN @ \cup {s} ELSE @,
                         !.boot[s] = IF s \in cst.bootstrapped THEN "idle" ELSE "awaiting"]
          \/ /\ cst.boot[s] = "awaiting"
             /\ \/ cst' = TouchSession([Clock(cst, dt) EXCEPT
                              !.boot[s] = "idle", !.bootstrapped = @ \cup {s}], s)
                \/ cst' = TouchSession([Clock(cst, dt) EXCEPT
                              !.boot[s] = "idle", !.bootstrapped = @ \cup {s},
                              !.coreIds = @ \cup {s}, !.injected[s] = Min2(@ + 1, 2)], s)
                \/ cst' = [Clock(cst, dt) EXCEPT !.boot[s] = "idle"]
  /\ HookFrame

\* Reference variant: agent_end without the test of sleepCycleRunning.
AgentEndNoFlag ==
  /\ \E dt \in SleepElapsed :
       /\ SleepClockCanAdvance(dt)
       /\ cst' = IF (cst.now + dt) - cst.lastSleepCycleAt >= AutoIntervalMs
                 THEN [Clock(cst, dt) EXCEPT !.sleepCycleRunning = TRUE, !.runs = @ + 1]
                 ELSE Clock(cst, dt)
  /\ HookFrame

\* Reference variant: agent_end without the interval test.
AgentEndNoInterval ==
  /\ \E dt \in SleepElapsed :
       /\ SleepClockCanAdvance(dt)
       /\ cst' = IF ~cst.sleepCycleRunning
                 THEN [Clock(cst, dt) EXCEPT !.sleepCycleRunning = TRUE, !.runs = @ + 1]
                 ELSE Clock(cst, dt)
  /\ HookFrame

\* agent_end (success, messages, no skip pattern; sleepCycle.auto on): the
\* auto sleep cycle is started when none is running and the interval since
\* lastSleepCycleAt has passed.
AgentEnd ==
  /\ \E dt \in SleepElapsed :
       /\ SleepClockCanAdvance(dt)
       /\ cst' = IF /\ ~cst.sleepCycleRunning
                    /\ (cst.now + dt) - cst.lastSleepCycleAt >= AutoIntervalMs
                 THEN [Clock(cst, dt) EXCEPT !.sleepCycleRunning = TRUE, !.runs = @ + 1]
                 ELSE Clock(cst, dt)
  /\ HookFrame

\* Reference variant: the flag cleared after the try block, not in a finally.
AutoSleepSettlesNoFinally ==
  /\ cst.runs > 0
  /\ \E dt \in SleepElapsed :
       /\ SleepClockCanAdvance(dt)
       /\ \/ cst' = [Clock(cst, dt) EXCEPT !.lastSleepCycleAt = cst.now + dt,
                                           !.returnedAt = cst.now + dt,
                                           !.sleepCycleRunning = FALSE, !.runs = @ - 1]
          \/ cst' = [Clock(cst, dt) EXCEPT !.threw = TRUE, !.runs = @ - 1]
  /\ HookFrame

\* The background run settles: resolved (aborted or not) sets
\* lastSleepCycleAt = Date.now(); a rejection is logged; finally
\* sleepCycleRunning = false.
AutoSleepSettles ==
  /\ cst.runs > 0
  /\ \E dt \in SleepElapsed :
       /\ SleepClockCanAdvance(dt)
       /\ \/ cst' = [Clock(cst, dt) EXCEPT !.lastSleepCycleAt = cst.now + dt,
                                           !.returnedAt = cst.now + dt,
                                           !.sleepCycleRunning = FALSE, !.runs = @ - 1]
          \/ cst' = [Clock(cst, dt) EXCEPT !.threw = TRUE,
                                           !.sleepCycleRunning = FALSE, !.runs = @ - 1]
  /\ HookFrame

HookIdle ==
  /\ mem = [m \in MemIds |-> NoMem]
  /\ ents = [e \in EntIds |-> NoEnt]
  /\ tags = [t \in TagIds |-> "none"]
  /\ ready = TRUE
  /\ aborted = FALSE
  /\ opts = CHOOSE o \in OptionProfiles : o.agentId = NoAgent /\ ~o.skipSemanticDedup
  /\ pc = "idle"
  /\ loc = LocInit
  /\ result = [aborted |-> FALSE, returned |-> FALSE, pruned |-> 0, resolved |-> 0]
  /\ started = <<>>
  /\ hist = HistInit
  /\ ms = MsIdle

\* The plugin registered at some time t0: lastTtlSweep = Date.now(), empty
\* maps.
SessionInit ==
  /\ HookIdle
  /\ cst = [now |-> SessionTtlMs, lastTtlSweep |-> SessionTtlMs,
            bootstrapped |-> {}, coreIds |-> {}, refreshAt |-> {},
            lastSeen |-> [s \in Sessions |-> -1], boot |-> [s \in Sessions |-> "idle"],
            injected |-> [s \in Sessions |-> 0], reset |-> {}, evicted |-> {},
            skipped |-> {}, jumps |-> 0]

SessionNext ==
  \/ SessionReset
  \/ CoreRefreshDone
  \/ AgentBootstrap

SessionSpec == SessionInit /\ [][SessionNext]_vars

\* lastSleepCycleAt = 0, sleepCycleRunning = false.
AutoSleepInit ==
  /\ HookIdle
  /\ cst = [now |-> SessionTtlMs, lastSleepCycleAt |-> 0, sleepCycleRunning |-> FALSE,
            runs |-> 0, returnedAt |-> -1, threw |-> FALSE, jumps |-> 0]

AutoSleepNext ==
  \/ AgentEnd
  \/ AutoSleepSettles

AutoSleepSpec == AutoSleepInit /\ [][AutoSleepNext]_vars

\* The same, a run in flight being sure to settle.
AutoSleepFairSpec == AutoSleepSpec /\ WF_vars(AutoSleepSettles)

\* ================================ runSleepCycle: the pending-batch loop alone
\* The while loop of the extraction phase with the retry counter of each
\* memory (m.extractionRetries, returned by listPendingExtractions and handed
\* to runBackgroundExtraction) kept in `cst.retries`.  What the extractor does
\* with the counter: a transient failure is written back with
\* updateExtractionStatus(id, "pending", {incrementRetries: true}); once the
\* counter has reached its limit the memory is marked failed instead.
MaxExtractionRetries == 2

\* Reference variant: a transient failure is not counted.
ExtractionRetryUncounted(r, out) == [retries |-> r, out |-> out]

ExtractionRetry(r, out) ==
  IF out.kind # "pending" THEN [retries |-> r, out |-> out]
  ELSE IF r < MaxExtractionRetries THEN [retries |-> r + 1, out |-> out]
  ELSE [retries |-> r, out |-> [out EXCEPT !.kind = "failed"]]

\* One await of the loop resolves: listPendingExtractions (an empty answer
\* or a throw ends the phase), the Promise.allSettled of a chunk of
\* runBackgroundExtraction calls, or the delay between batches.
ExtractionLoopStep ==
  /\ \/ /\ pc = "listPendingExtractions"
        /\ LET pending == SortedSeq(ListPendingExtractions(mem, opts.agentId))
           IN IF pending = <<>>
              THEN pc' = "done" /\ loc' = LocInit
              ELSE /\ pc' = "runBackgroundExtraction"
                   /\ loc' = [LocInit EXCEPT !.pairs = pending, !.i = 1 + LlmConcurrency,
                                             !.batch = SubSeq(pending, 1, Min2(LlmConcurrency, Len(pending)))]
        /\ UNCHANGED <<mem, ents, tags, cst>>
     \/ /\ pc = "listPendingExtractions"
        /\ cst.throws
        /\ pc' = "done" /\ loc' = LocInit
        /\ UNCHANGED <<mem, ents, tags, cst>>
     \/ /\ pc = "runBackgroundExtraction"
        /\ \E outs \in [1..Len(loc.batch) -> ExtractionOutcomes] :
             LET e == [j \in 1..Len(loc.batch) |-> ExtractionRetry(cst.retries[loc.batch[j]], outs[j])]
                 S == ExtractChunk([mem |-> mem, ents |-> ents, tags |-> tags], loc.batch,
                                   [j \in 1..Len(loc.batch) |-> e[j].out], 1)
             IN /\ mem' = S.mem /\ ents' = S.ents /\ tags' = S.tags
                /\ cst' = [cst EXCEPT !.retries =
                             [m \in MemIds |-> IF \E j \in 1..Len(loc.batch) : loc.batch[j] = m
                                               THEN e[CHOOSE j \in 1..Len(loc.batch) : loc.batch[j] = m].retries
                                               ELSE @[m]]]
        /\ IF loc.i <= Len(loc.pairs)
           THEN /\ pc' = pc
                /\ loc' = [loc EXCEPT !.i = @ + LlmConcurrency,
                                      !.batch = SubSeq(loc.pairs, loc.i,
                                                       Min2(loc.i + LlmConcurrency - 1, Len(loc.pairs)))]
           ELSE pc' = "extractionDelay" /\ UNCHANGED loc
     \/ /\ pc = "extractionDelay"
        /\ pc' = "listPendingExtractions"
        /\ UNCHANGED <<mem, ents, tags, loc, cst>>
  /\ UNCHANGED <<ready, aborted, opts, result, started, hist, ms>>

\* countByExtractionStatus has reported pending memories: three of them, the
\* first with or without an earlier transient failure on its counter.
ExtractionInit ==
  /\ mem = [m \in MemIds |->
              IF m <= 3 THEN Mk("other", ImpDefault, 10 * m, "plain", "a", 10, "pending", {}, {})
              ELSE NoMem]
  /\ ents = [e \in EntIds |-> NoEnt]
  /\ tags = [t \in TagIds |-> "none"]
  /\ ready = TRUE
  /\ aborted = FALSE
  /\ opts = CHOOSE o \in OptionProfiles : o.agentId = NoAgent /\ ~o.skipSemanticDedup
  /\ pc = "listPendingExtractions"
  /\ loc = LocInit
  /\ result = [aborted |-> FALSE, returned |-> FALSE, pruned |-> 0, resolved |-> 0]
  /\ started = <<>>
  /\ hist = HistInit
  /\ ms = MsIdle
  /\ \E r \in {0, 1}, t \in BOOLEAN :
       cst = [retries |-> [m \in MemIds |-> IF m = 1 THEN r ELSE 0], throws |-> t]

ExtractionSpec == ExtractionInit /\ [][ExtractionLoopStep]_vars

\* The same, every await of the loop being sure to settle.
ExtractionFairSpec == ExtractionSpec /\ WF_vars(ExtractionLoopStep)

\* ============================== store client: the sleep cycle's mutations
\* The six mutations the phases issue.  mergeMemoryCluster, pruneMemories and
\* mergeEntityPair hand their query to retryOnTransient; invalidateMemory,
\* deleteMemoriesByPattern and deleteMemoriesByIds run it once in a plain
\* try/finally.  mergeEntityPair catches every error of its query inside the
\* function it hands over and returns false.
MaxMutations == 2
MutationKinds ==
  {"mergeMemoryCluster", "pruneMemories", "mergeEntityPair",
   "invalidateMemory", "deleteMemoriesByPattern", "deleteMemoriesByIds"}
UsesRetryOnTransient(op) == op \in {"mergeMemoryCluster", "pruneMemories", "mergeEntityPair"}
CatchesInside(op) == op = "mergeEntityPair"
MutationIdle == [op |-> "none", attempt |-> 0, calls |-> 0, waits |-> <<>>, done |-> <<>>]

\* A phase calls a mutation, or the query of the mutation in flight settles:
\* with its result, or with an error (transient or not) that is swallowed,
\* followed by the backoff delay and another pass, or thrown to the phase.
StoreMutationStep ==
  /\ \/ /\ cst.op = "none"
        /\ Len(cst.done) < MaxMutations
        /\ \E op \in MutationKinds : cst' = [cst EXCEPT !.op = op]
     \/ /\ cst.op # "none"
        /\ \E r \in {"ok", "transient", "permanent"} :
             LET calls == cst.calls + 1
                 fin(out) == [cst EXCEPT !.op = "none", !.attempt = 0, !.calls = 0, !.waits = <<>>,
                                         !.done = Append(@, [op |-> cst.op, out |-> out, err |-> r,
                                                             calls |-> calls, waits |-> cst.waits])]
             IN IF r = "ok" THEN cst' = fin("returned")
                ELSE IF CatchesInside(cst.op) THEN cst' = fin("false")
                ELSE IF /\ UsesRetryOnTransient(cst.op) /\ r = "transient"
                        /\ cst.attempt < TransientRetryAttempts - 1
                THEN cst' = [cst EXCEPT !.calls = calls, !.attempt = @ + 1,
                                        !.waits = Append(@, RetryDelay(cst.attempt))]
                ELSE cst' = fin("thrown")
  /\ UNCHANGED <<mem, ents, tags, ready, aborted, opts, pc, loc, result, started, hist, ms>>

MutationInit == HookIdle /\ cst = MutationIdle

MutationSpec == MutationInit /\ [][StoreMutationStep]_vars

\* ================================= runSleepCycle: the vector merge alone
\* Phase 1 up to the end of its merge loop, over stores of three memories of
\* which the first two are near-duplicates (0.97) or not (0.90): a fact of
\* importance 0.7 or 1.0 (memory_store clamps a given importance to [0, 1])
\* or a core memory, then a plain or a core memory, then a third memory near
\* the first (0.95) or far from both.
VectorDedupStores ==
  {[m \in MemIds |->
      IF m = 1 THEN Mk(k1[1], k1[2], 0, "plain", a1, 10, "complete", {"e1"}, {"t1"})
      ELSE IF m = 2 THEN Mk(k2[1], k2[2], e2, "plain", "a", 10, "complete", {}, {})
      ELSE IF m = 3 THEN Mk(k3[1], k3[2], e3, "plain", "a", 10, "complete", {}, {})
      ELSE NoMem] :
     k1 \in {<<"fact", ImpDefault>>, <<"fact", ImpCore>>, <<"core", ImpCore>>},
     k2 \in {<<"other", ImpDefault>>, <<"core", ImpCore>>},
     k3 \in {<<"other", 20>>, <<"core", ImpCore>>},
     a1 \in Agents, e2 \in {3, 10}, e3 \in {5, 50}}

VectorDedupInit ==
  /\ mem \in VectorDedupStores
  /\ ents = [e \in EntIds |-> [node |-> TRUE, mc |-> Cardinality(MentionsOf(mem, e))]]
  /\ tags = [t \in TagIds |-> "old"]
  /\ opts \in OptionProfiles
  /\ ready = (opts.agentId = NoAgent)
  /\ CtlInit

VectorDedupNext ==
  \/ StartSleepCycle
  \/ FindDuplicateClustersDone
  \/ MergeMemoryClusterDone

VectorDedupSpec == VectorDedupInit /\ [][VectorDedupNext]_vars

\* ==================== store client: findDuplicateClusters, the pair counter
\* The scan over allIds in batches of DEDUP_CONCURRENCY vector queries, each
\* asking for the k = 10 nearest nodes; `n` is the number of memories the
\* first query returned, `pairsFound` the matches counted so far.
DedupConcurrency == 8
DedupQueryK == 10
PairSafetyBound == 2000
MaxScanRuns == 1
ScanSizes == {1, 9, 208, 216}
PairScanIdle == [fpc |-> "idle", n |-> 0, batchStart |-> 0, pairsFound |-> 0,
                 warned |-> FALSE, broke |-> FALSE, raised |-> FALSE, runs |-> 0]

\* One await of findDuplicateClusters resolves.  The id query: fewer than two
\* memories return [] at once.  A pass of the for loop: the test of
\* batchStart, the test of the safety bound (warning and break), then the
\* batch's queries, all of whose matching rows are counted before the next
\* test; a query whose retries are exhausted rejects the call.
FindDuplicateClustersBatch ==
  /\ \/ /\ cst.fpc = "idle"
        /\ cst.runs < MaxScanRuns
        /\ \E n \in ScanSizes :
             cst' = [PairScanIdle EXCEPT !.fpc = IF n < 2 THEN "done" ELSE "scan",
                                         !.n = n, !.runs = cst.runs + 1]
     \/ /\ cst.fpc = "scan"
        /\ IF cst.batchStart >= cst.n
           THEN cst' = [cst EXCEPT !.fpc = "done"]
           ELSE IF cst.pairsFound > PairSafetyBound
           THEN cst' = [cst EXCEPT !.fpc = "done", !.warned = TRUE, !.broke = TRUE]
           ELSE LET len == Min2(DedupConcurrency, cst.n - cst.batchStart)
                IN \/ \E found \in {0, len, len * DedupQueryK} :
                        cst' = [cst EXCEPT !.pairsFound = @ + found,
                                           !.batchStart = @ + DedupConcurrency]
                   \/ cst' = [cst EXCEPT !.fpc = "done", !.raised = TRUE]
     \/ /\ cst.fpc = "done"
        /\ cst' = [PairScanIdle EXCEPT !.runs = cst.runs]
  /\ UNCHANGED <<mem, ents, tags, ready, aborted, opts, pc, loc, result, started, hist, ms>>

PairScanInit == HookIdle /\ cst = PairScanIdle

PairScanSpec == PairScanInit /\ [][FindDuplicateClustersBatch]_vars

\* ===================================================================== claims
Range(f) == {f[i] : i \in DOMAIN f}
StartedIdx == {PhaseIndex(started[i]) : i \in 1..Len(started)}

\* C1: when the abort signal is raised while a phase of runSleepCycle is
\* active, the run returns aborted = true and no phase ordered after that
\* phase completes a destructive store call (merge, invalidation, prune,
\* delete).
C1_AbortStopsLaterWrites ==
  hist.abortAt >= 1 =>
    /\ \A p \in hist.dw : p <= hist.abortAt
    /\ pc = "done" => result.aborted

\* Abort fired during dedup; the run returned with the old noise memory of
\* the store untouched.
C1_Witness ==
  /\ pc = "done" /\ result.aborted /\ hist.abortAt = 1
  /\ mem[3].cat = "other" /\ mem[3].txt = "noise"

\* C2: when a single phase throws, runSleepCycle still returns and every
\* phase its options enable is started, unless the run was aborted.
C2_EveryPhaseStartsDespiteThrow ==
  (pc = "done" /\ ~aborted) =>
    \A j \in 1..Len(Phases) : (j = 2 \/ PhaseOption(j, opts)) => j \in StartedIdx

\* C3: the phases start in the fixed order, the call in flight always
\* belongs to the phase started last, and decay is started only once no
\* extraction call is in flight.
C3_PhasesInOrder ==
  /\ \A i \in 1..(Len(started) - 1) :
       PhaseIndex(started[i]) < PhaseIndex(started[i + 1])
  /\ pc \notin {"idle", "done"} =>
       /\ started # <<>>
       /\ PhaseOfPc(pc) = PhaseIndex(started[Len(started)])
  /\ "decay" \in Range(started) => PhaseOfPc(pc) # 5

\* The prune of the decay phase is in flight after an extraction phase.
C3_Witness ==
  /\ pc = "pruneMemories"
  /\ "extraction" \in Range(started)
  /\ "semanticDedup" \in Range(started)

\* C4: once the abort signal is set no phase is started: no phase-start
\* notification and no first store or LLM call of a phase follows it.
C4_NoPhaseStartsAfterAbort == hist.startAb = {} /\ hist.callAb = {}

\* C5: a memory invalidated by semantic dedup or conflict detection still
\* exists when the run returns (stated for the plain run: not aborted, no
\* call failed).
C5_InvalidatedSurvivesRun ==
  (pc = "done" /\ ~aborted /\ hist.threw = {}) => \A m \in hist.inv : Exists(m)

C7_DecayKeepsCore ==
  [][PhaseOfPc(pc) = 6 =>
       \A m \in MemIds : mem[m].cat = "core" => mem'[m].cat = "core"]_vars

\* Decay has pruned while a core memory scored below the threshold.
C7_Witness ==
  /\ 6 \in hist.wrote
  /\ \E m \in MemIds : /\ Exists(m) /\ mem[m].cat = "core"
                       /\ DecayScore(mem[m], opts) < opts.decayThreshold

\* C8: every core memory has importance 1.0.
C8_CoreImportanceLocked ==
  \A m \in MemIds : mem[m].cat = "core" => mem[m].imp = ImpCore

\* C9: memory_store creates nothing while the store holds a non-core memory
\* at similarity >= 0.95 of the new text (stated for the calling agent's own
\* memories and a lookup that succeeded).
C9_NoWriteNextToDuplicate ==
  (ms.out = "created" /\ ms.lookup = "ok") =>
    ~\E m \in MemIds \ {NewId} :
       /\ Exists(m) /\ mem[m].cat # "core" /\ mem[m].agent = ToolAgent
       /\ Sim(mem[m].emb, ms.input.emb) >= StoreDupThreshold

\* C10: findSimilar never raises to memory_store.
C10_FindSimilarNeverRaises == ms.lookup # "raised"

\* C11: a finished mergeMemoryCluster call deleted all members but the
\* survivor and returned len(ids) - 1 when no member was missing, and
\* deleted nothing and returned 0 when a member was missing, whatever
\* another operation removed meanwhile.
C11_MergeAllOrNothing ==
  cst.mpc = "done" =>
    IF cst.missing = {}
    THEN /\ cst.deletedCount = Len(cst.ids) - 1
         /\ cst.removed = {cst.ids[i] : i \in 1..Len(cst.ids)} \ {cst.sv}
    ELSE cst.deletedCount = 0 /\ cst.removed = {}

\* C12: the survivor of mergeMemoryCluster carries the maximum of the given
\* importances, and no statement of the merge deletes it.
C12_SurvivorIsArgmax ==
  [][/\ cst'.mpc # "idle" =>
          \E i \in 1..Len(cst'.ids) :
            /\ cst'.ids[i] = cst'.sv
            /\ \A j \in 1..Len(cst'.ids) : cst'.imps[j] <= cst'.imps[i]
     /\ (cst.mpc \notin {"idle", "done"} /\ cst'.mpc # cst.mpc /\ mem[cst.sv].cat # "none")
          => mem'[cst.sv].cat # "none" /\ cst'.sv \notin cst'.removed]_vars

\* A merge of two memories deleted the first and kept the second, the more
\* important one.
C12_Witness ==
  /\ cst.mpc = "done" /\ cst.ids = <<1, 2>> /\ cst.imps = <<30, 70>>
  /\ cst.removed = {1} /\ mem[2].cat # "none" /\ "e1" \in mem[2].ents

\* C13: between store operations every entity's mentionCount is the number
\* of MENTIONS edges that point to it.
C13_MentionCountIsEdgeCount ==
  cst.mpc \in {"idle", "done"} =>
    \A e \in EntIds : ents[e].node => ents[e].mc = Cardinality(MentionsOf(mem, e))

\* C17: a deleteMemory call with an id that is not UUID-shaped fails with
\* the format error, and nothing was issued to the store before it.
C17_BadIdFailsBeforeStore ==
  (cst.dn > 0 /\ ~cst.del.uuid) => cst.del.out = "invalid" /\ ~cst.del.touched

\* C18: a deleteMemory call made for an agent leaves every memory of
\* another agent as it was; when the id exists under another agent only,
\* the call does not report a deletion and no mention count changes; a call
\* made by memory_forget carries an agent.
C18_DeleteScopedToAgent ==
  [][cst'.dn # cst.dn =>
       LET c == cst'.del
       IN /\ c.tool => c.agentId \in Agents
          /\ c.agentId # NoAgent =>
               /\ \A m \in MemIds :
                    (mem[m].cat # "none" /\ mem[m].agent # c.agentId) => mem'[m] = mem[m]
               /\ (mem[c.id].cat # "none" /\ mem[c.id].agent # c.agentId) =>
                    c.out # "deleted" /\ ents' = ents]_vars

\* memory_forget of agent a named a memory of agent b, which mentions an
\* entity: the answer was "not found" and the memory is still there.
C18_Witness ==
  /\ cst.dn = 1 /\ cst.del.tool /\ cst.del.agentId = "a" /\ cst.del.out = "notFound"
  /\ mem[cst.del.id].cat # "none" /\ mem[cst.del.id].agent = "b"
  /\ mem[cst.del.id].ents # {}

\* C19: every relationship type written between entities, and so every
\* type interpolated into a MERGE statement, is one of the seven allowed.
C19_OnlyAllowedRelationshipTypes ==
  cst.rels \subseteq {"WORKS_AT", "LIVES_AT", "KNOWS", "MARRIED_TO", "PREFERS",
                      "DECIDED", "RELATED_TO"}

\* An extraction asked for an allowed type and for a string that would
\* break out of the statement: only the allowed one was written.
C19_Witness ==
  /\ cst.asked = {"RELATED_TO", "KNOWS]->() DETACH DELETE"}
  /\ cst.rels = {"RELATED_TO"}

\* C14: retryOnTransient invokes the operation at most 3 times; every wait
\* follows a transient failure and the waits are 500 ms, then 1000 ms; a
\* failure that is not transient ends the call at once with that error and
\* no wait, so a first failure of that kind leaves one invocation; after
\* the third failure the error thrown is the last one.
C14_RetryBounded ==
  LET rt == cst.rt
  IN
  /\ rt.calls <= 3
  /\ rt.waits = SubSeq(<<500, 1000>>, 1, Len(rt.waits))
  /\ Len(rt.waits) = (IF rt.out = "none" THEN rt.calls ELSE rt.calls - 1)
  /\ \A i \in 1..Len(rt.waits) : rt.errs[i].kind = "transient"
  /\ (rt.errs # <<>> /\ rt.errs[1].kind = "permanent") =>
       rt.out = "thrown" /\ rt.calls = 1 /\ rt.waits = <<>> /\ rt.thrown = rt.errs[1]
  /\ rt.out = "thrown" =>
       /\ rt.thrown = rt.errs[Len(rt.errs)]
       /\ rt.thrown.of = rt.calls
       /\ rt.thrown.kind = "permanent" \/ rt.calls = 3

C14_Witness ==
  /\ cst.rt.out = "thrown" /\ cst.rt.calls = 3 /\ cst.rt.waits = <<500, 1000>>
  /\ cst.rt.thrown = [kind |-> "transient", of |-> 3]

\* C15: a finished hybridSearch call returned the fusion, and none of its
\* signals raised.
C15_SignalsNeverRaise ==
  (cst.hs.pc = "done" /\ cst.hs.embedded) =>
    cst.hs.out = "fused" /\ \A i \in 1..3 : cst.hs.signals[i] # "raised"

\* C16: of two initialisations started after the same number of completed
\* close() calls, one has failed; and the promise kept for later callers is
\* never that of a failed initialisation.
C16_SingleInitialization ==
  /\ \A r1, r2 \in 1..Len(cst.runs) :
       (r1 # r2 /\ cst.runs[r1].closes = cst.runs[r2].closes) =>
         cst.runs[r1].st = "failed" \/ cst.runs[r2].st = "failed"
  /\ cst.initPromise # 0 => cst.runs[cst.initPromise].st # "failed"

\* C20: the credential scan deletes only memories whose text matches a
\* credential pattern, and when it ends without an error and without having
\* been cut short by an abort, no memory of the scanned scope, core
\* included, has a text that matches one.
C20_CredentialScanRemovesAll ==
  [][(pc \in {"fetchAllMemoriesForScan", "deleteMemoriesByIds"}) =>
       (/\ \A m \in MemIds :
             (mem[m].cat # "none" /\ mem'[m].cat = "none") => DetectCredential(mem[m].txt)
        /\ (/\ pc' \notin {"fetchAllMemoriesForScan", "deleteMemoriesByIds"}
            /\ 9 \notin hist'.threw
            /\ ~(pc = "fetchAllMemoriesForScan" /\ aborted))
           => \A m \in MemIds :
                (/\ mem'[m].cat # "none"
                 /\ (opts.agentId = NoAgent \/ mem'[m].agent = opts.agentId))
                => ~DetectCredential(mem'[m].txt))
    ]_vars

C20_Witness ==
  /\ 9 \in hist.wrote /\ 9 \notin hist.threw
  /\ mem[3].cat = "none" /\ mem[1].cat = "fact" /\ mem[2].cat = "other"

\* C21: a finished memory_forget search deleted a memory exactly when the
\* search returned one candidate and its score was >= 0.95, and in every
\* other case answered with the candidates (or that there are none).
C21_ForgetDeletesIffSingleHigh ==
  (cst.op = "memory_forget" /\ cst.fpc = "done") =>
    /\ (mem # cst.before) <=>
         /\ Cardinality(cst.rows) = 1
         /\ \A m \in cst.rows : Sim(cst.before[m].emb, cst.emb) >= 95
    /\ mem = cst.before => cst.out \in {"candidates", "found0"}

C26_StoreDefaults ==
  cst.op = "memory_store" =>
    /\ (~cst.hasImportance /\ cst.category # "core") => cst.stored.imp = 70
    /\ cst.category = "unset" => cst.stored.cat = "other"
    /\ cst.category # "unset" => cst.stored.cat = cst.category
    /\ cst.category = "core" => cst.stored.imp = 100
    /\ cst.stored.imp >= 0 /\ cst.stored.imp <= 100

C26_Witness ==
  /\ cst.op = "memory_store" /\ cst.category = "core"
  /\ cst.hasImportance /\ cst.importance = 30 /\ cst.stored.imp = 100

\* C27: a query with a capitalised word that is no stop word is classified
\* entity whatever its length; without one, a query of at most two words is
\* short and a query of five or more words is long.
C27_EntityBeforeLength ==
  cst.op = "classifyQuery" =>
    LET n == Len(cst.q.words)
        proper == \E i \in 1..n : cst.q.words[i] = "John"
    IN /\ proper => cst.type = "entity"
       /\ (~proper /\ n <= 2) => cst.type = "short"
       /\ (~proper /\ n >= 5) => cst.type = "long"

C27_Witness ==
  cst.op = "classifyQuery" /\ cst.q.words = <<"cat", "John">> /\ cst.type = "entity"

\* C28: hybridSearch with an empty or all-white-space query returned the
\* empty list, and neither the embedding nor any store call was issued: no
\* initialisation was started or awaited for it.
C28_BlankQueryReturnsEmpty ==
  [][(cst.hs.pc = "idle" /\ cst'.hs.pc # "idle"
        /\ \A i \in 1..Len(cst'.hs.query) : cst'.hs.query[i] \in {" ", "\t", "\n"}) =>
       (/\ cst'.hs.pc = "done" /\ cst'.hs.out = "empty"
        /\ ~cst'.hs.embedded /\ ~cst'.hs.stored
        /\ cst'.runs = cst.runs /\ cst'.initPromise = cst.initPromise
        /\ cst'.driver = cst.driver)
    ]_vars

\* A white-space query was answered on a client that was never initialised.
C28_Witness ==
  /\ cst.hs.pc = "done" /\ cst.hs.query = <<"\t", " ">> /\ cst.hs.out = "empty"
  /\ ~cst.driver /\ cst.runs = <<>>

C30_OnlyHighSimilarityMerged ==
  [][(pc = "mergeMemoryCluster" /\ pc' # pc) =>
       LET ids == loc.cl[loc.i].ids
       IN \A m \in MemIds :
            (mem[m].cat # "none" /\ mem'[m].cat = "none") =>
              \E i \in 1..Len(ids) :
                ids[i] # m /\ Sim(mem[m].emb, mem[ids[i]].emb) >= 95
    ]_vars

\* C23: in the conflict phase the only memory changes are invalidations for
\* a verdict a or b, of memory B for a and of memory A for b, one memory at a
\* time; verdicts both and skip change no memory; the resolved count grows by
\* one per verdict a, b or both handled and never for a skip, so it stays 0
\* in a run whose verdicts are all skip.
C23_ConflictVerdicts ==
  [][/\ (pc \in {"resolveConflict", "conflictInvalidateMemory"} /\ ms' = ms) =>
          /\ (pc = "resolveConflict") => (mem' = mem)
          /\ (mem' # mem) =>
               LET pr == loc.batch[loc.k]
                   v == loc.outs[loc.k]
                   rid == IF v = "a" THEN pr[2] ELSE pr[1]
               IN /\ v \in {"a", "b"}
                  /\ mem[rid].imp # 1 => mem'[rid].imp = 1
                  /\ \A m \in MemIds \ {rid} : mem'[m] = mem[m]
                  /\ result'.resolved >= result.resolved + 1
          /\ (pc' = "conflictInvalidateMemory") =>
               LET from == IF pc = "resolveConflict" THEN 1 ELSE loc.k + 1
                   both == Cardinality({j \in from..(loc'.k - 1) : loc'.outs[j] = "both"})
                   own == IF mem' # mem THEN 1 ELSE 0
               IN result'.resolved = result.resolved + own + both
     /\ ~opts.configEnabled => result'.resolved = 0
    ]_vars

\* Verdict a on the pair (1, 2): memory 2 invalidated, memory 1 as it was,
\* one pair resolved; semantic dedup wrote nothing before.
C23_Witness ==
  /\ 3 \in hist.wrote /\ 2 \notin hist.wrote /\ 1 \notin hist.wrote
  /\ result.resolved = 1
  /\ mem[2].cat = "other" /\ mem[2].imp = 1
  /\ mem[1].cat = "fact" /\ mem[1].imp = ImpDefault

\* C24: a merge of entity dedup keeps the entity with the larger mention
\* count, on a tie the one with the shorter name; the other entity is gone
\* afterwards and every memory that mentioned it mentions the survivor.
C24_EntityMergeSurvivor ==
  [][(pc = "mergeEntityPair" /\ ents' # ents) =>
       LET keep == loc.pairs[loc.i].keepId
           remove == loc.pairs[loc.i].removeId
           mcKeep == Max2(0, ents[keep].mc)
           mcRemove == Max2(0, ents[remove].mc)
       IN /\ keep # remove
          /\ mcKeep > mcRemove \/ (mcKeep = mcRemove /\ NameLen(keep) <= NameLen(remove))
          /\ ents'[keep].node /\ ~ents'[remove].node
          /\ \A m \in MemIds :
               (mem[m].cat # "none" /\ remove \in mem[m].ents) =>
                 (keep \in mem'[m].ents /\ remove \notin mem'[m].ents)
    ]_vars

\* Entity e2 was merged into e1 and memory 3, which mentioned e2, now
\* mentions e1.
C24_Witness ==
  /\ 4 \in hist.wrote
  /\ ents["e1"].node /\ ~ents["e2"].node
  /\ mem[3].cat = "other" /\ mem[3].ents = {"e1"}

\* C29: once the abort signal is set, the phase that is running issues no
\* further cluster merge, invalidation, entity merge, orphan delete, pattern
\* delete or delete of credential matches.
C29_NoMutationIssuedAfterAbort ==
  [][~ /\ aborted
       /\ pc' \in {"mergeMemoryCluster", "semInvalidateMemory", "conflictInvalidateMemory",
                   "mergeEntityPair", "deleteOrphanEntities", "deleteOrphanTags",
                   "deleteSingleUseTags", "deleteMemoriesByPattern", "deleteMemoriesByIds"}
       /\ (pc' # pc \/ loc' # loc)
       /\ PhaseOfPc(pc') = PhaseOfPc(pc)
    ]_vars

\* C31: never more than one auto-triggered sleep cycle in flight.
C31_SingleAutoRun == cst.runs <= 1

\* A run is in flight, the interval test of agent_end passes and time has
\* moved since the run began: only the flag keeps a second run from starting.
C31_Witness ==
  /\ cst.runs = 1 /\ cst.sleepCycleRunning
  /\ cst.returnedAt >= 0 /\ cst.now - cst.lastSleepCycleAt >= AutoIntervalMs

\* C32: an auto-triggered run starts no sooner than autoIntervalMs after the
\* previous auto-triggered run resolved.
C32_IntervalSinceReturn ==
  [][(cst'.runs > cst.runs /\ cst.returnedAt >= 0) =>
       cst'.now - cst.returnedAt >= AutoIntervalMs]_vars

\* A second run in flight, started exactly autoIntervalMs after the first
\* one resolved.
C32_Witness ==
  /\ cst.runs = 1 /\ cst.returnedAt >= 0 /\ ~cst.threw
  /\ cst.now - cst.returnedAt = AutoIntervalMs
  /\ cst.lastSleepCycleAt = cst.returnedAt

\* C33: the running flag is set only while an auto-triggered run is in
\* flight, and once set it is cleared again, however the run ends.
C33_FlagCleared ==
  /\ [](cst.sleepCycleRunning => cst.runs > 0)
  /\ (cst.sleepCycleRunning ~> ~cst.sleepCycleRunning)

\* A run rejected, the flag was cleared, and a later agent_end started the
\* next run.
C33_Witness == cst.threw /\ cst.runs = 1 /\ cst.sleepCycleRunning

\* C37: a sweep runs no sooner than 5 minutes after the one before, and when
\* it runs it takes every session last seen more than 24 hours ago out of
\* the four maps and leaves every session seen within 24 hours as it was.
C37_SweepThrottledAndExact ==
  [][(cst'.lastTtlSweep # cst.lastTtlSweep) =>
       /\ cst'.now - cst.lastTtlSweep >= TtlSweepMs
       /\ \A s \in Sessions :
            LET seen == cst.lastSeen[s]
            IN /\ (seen >= 0 /\ cst'.now - seen > SessionTtlMs /\ cst'.lastSeen[s] # cst'.now) =>
                    /\ cst'.lastSeen[s] = -1
                    /\ s \notin cst'.bootstrapped \cup cst'.coreIds \cup cst'.refreshAt
               /\ (seen >= 0 /\ cst'.now - seen <= SessionTtlMs) =>
                    /\ cst'.lastSeen[s] >= 0
                    /\ s \in cst.bootstrapped => s \in cst'.bootstrapped
                    /\ s \in cst.coreIds => s \in cst'.coreIds
                    /\ s \in cst.refreshAt => s \in cst'.refreshAt
    ]_vars

\* A sweep has just evicted session s1 and kept the bootstrapped session s2.
C37_Witness ==
  /\ "s1" \in cst.evicted /\ cst.lastSeen["s1"] = -1 /\ "s1" \notin cst.bootstrapped
  /\ cst.lastTtlSweep = cst.now
  /\ cst.lastSeen["s2"] >= 0 /\ cst.lastSeen["s2"] < cst.now /\ "s2" \in cst.bootstrapped

C39_InjectOnce == \A s \in Sessions : cst.injected[s] <= 1

\* Session s1 got its injection and a later agent_bootstrap for it returned at
\* the test.
C39_Witness ==
  /\ cst.injected["s1"] = 1 /\ "s1" \in cst.bootstrapped /\ "s1" \in cst.skipped
  /\ cst.boot["s1"] = "idle"

C35_TransientMutationRetried ==
  \A i \in 1..Len(cst.done) :
    cst.done[i].err = "transient" =>
      /\ cst.done[i].calls = TransientRetryAttempts
      /\ cst.done[i].waits = [a \in 1..(TransientRetryAttempts - 1) |-> RetryDelay(a - 1)]
      /\ cst.done[i].out = "thrown"

\* C36: a vector-dedup merge of a cluster that holds a core memory leaves a
\* core memory as the survivor: after the merge every member of the cluster
\* still in the store is a core memory.
C36_CoreSurvivesMerge ==
  [][(pc = "mergeMemoryCluster" /\ ms' = ms /\ mem' # mem) =>
       (LET members == {loc.cl[loc.i].ids[k] : k \in 1..Len(loc.cl[loc.i].ids)}
        IN (\E m \in members : mem[m].cat = "core") =>
             (\A m \in members : mem'[m].cat \in {"none", "core"}))]_vars

\* C40: one findDuplicateClusters call never has counted more than the 2000
\* pairs of the safety bound, and a scan the bound has stopped has logged the
\* warning.
C40_PairBound ==
  /\ cst.pairsFound <= PairSafetyBound
  /\ cst.broke => cst.warned

====
